---- MODULE Spec2Model ----
(***************************************************************************)
(* Request execution and error normalisation of the Rooguys Node.js SDK:   *)
(* HttpClient.request (src/src/http-client.ts) with the helpers it calls   *)
(* (extractRateLimitInfo, extractRequestId, parseResponseBody, buildParams *)
(* and mapStatusToError of errors.ts).                                     *)
(*                                                                         *)
(* JavaScript values are tagged records: the tag t is the result of        *)
(* typeof, except for null, which has its own tag.  Strings are TLA+       *)
(* strings, numbers are integers or NaN, objects are functions from        *)
(* property names to values, a missing property reads as undefined.        *)
(***************************************************************************)
EXTENDS Integers, Sequences, FiniteSets, TLC

\* ------------------------------------------------------------------------
\* JavaScript values
\* ------------------------------------------------------------------------
Undefined == [t |-> "undefined"]
Null == [t |-> "null"]
Str(s) == [t |-> "string", s |-> s]
Num(n) == [t |-> "number", n |-> n]
NaN == [t |-> "number", nan |-> TRUE]
Bool(b) == [t |-> "boolean", b |-> b]
Obj(o) == [t |-> "object", o |-> o]
Arr(a) == [t |-> "object", a |-> a]

\* F(v), with the expression v evaluated once however often F uses it
Once(v, F(_)) == CHOOSE r \in {F(x) : x \in {v}} : TRUE

\* typeof v
TypeOf(v) == Once(v, LAMBDA x : IF x.t = "null" THEN "object" ELSE x.t)

\* ToBoolean(v): undefined, null, "", 0, NaN and false are falsy
Falsy == {Undefined, Null, Str(""), Num(0), NaN, Bool(FALSE)}
Truthy(v) == v \notin Falsy

\* a || b taking the right operand whenever that one is truthy
Or_RightFirst(a, b) == Once(b, LAMBDA y : IF Truthy(y) THEN y ELSE a)

\* a || b
Or(a, b) == Once(a, LAMBDA x : IF Truthy(x) THEN x ELSE b)

\* k in v, for an object v
HasKey(v, k) == Once(v, LAMBDA x : x.t = "object" /\ "o" \in DOMAIN x /\ k \in DOMAIN x.o)

\* v[k] and v?.[k]: a property of an object, undefined for a missing
\* property and for every value that has no such property
Get(v, k) == Once(v, LAMBDA x : IF HasKey(x, k) THEN x.o[k] ELSE Undefined)

\* a destructuring default: { k = d }
Default(v, d) == Once(v, LAMBDA x : IF x = Undefined THEN d ELSE x)

\* a * b on numbers
Mul(a, b) == IF "nan" \in DOMAIN a \/ "nan" \in DOMAIN b THEN NaN ELSE Num(a.n * b.n)

\* String.prototype.includes
Includes(s, sub) ==
  \E i \in 1..(Len(s) - Len(sub) + 1) : SubSeq(s, i, i + Len(sub) - 1) = sub

\* String.prototype.toLowerCase, on the header names the code passes to it
ToLowerCase(name) ==
  CASE name = "X-RateLimit-Limit" -> "x-ratelimit-limit"
    [] name = "X-RateLimit-Remaining" -> "x-ratelimit-remaining"
    [] name = "X-RateLimit-Reset" -> "x-ratelimit-reset"
    [] name = "X-Request-Id" -> "x-request-id"
    [] OTHER -> name

\* parseInt(s, 10): leading white space, an optional sign, then the longest
\* prefix of decimal digits; NaN when there is no digit
DigitChars == <<"0", "1", "2", "3", "4", "5", "6", "7", "8", "9">>
IsDigit(ch) == \E d \in 1..10 : DigitChars[d] = ch
DigitVal(ch) == (CHOOSE d \in 1..10 : DigitChars[d] = ch) - 1
CharAt(s, i) == SubSeq(s, i, i)

RECURSIVE SkipSpaces(_, _)
SkipSpaces(s, i) == IF i <= Len(s) /\ CharAt(s, i) = " " THEN SkipSpaces(s, i + 1) ELSE i

RECURSIVE ParseDigits(_, _, _)
ParseDigits(s, i, acc) ==
  IF i <= Len(s) /\ IsDigit(CharAt(s, i))
  THEN ParseDigits(s, i + 1, acc * 10 + DigitVal(CharAt(s, i)))
  ELSE acc

ParseIntString(s) ==
  LET i == SkipSpaces(s, 1)
      neg == i <= Len(s) /\ CharAt(s, i) = "-"
      j == IF i <= Len(s) /\ CharAt(s, i) \in {"-", "+"} THEN i + 1 ELSE i
  IN IF j <= Len(s) /\ IsDigit(CharAt(s, j))
     THEN Num((IF neg THEN -1 ELSE 1) * ParseDigits(s, j, 0))
     ELSE NaN

ParseInt(v) == Once(v, LAMBDA x : ParseIntString(x.s))

\* ------------------------------------------------------------------------
\* errors.ts: the error classes and mapStatusToError
\* ------------------------------------------------------------------------
RooguysErrorClasses ==
  {"RooguysError", "ValidationError", "AuthenticationError", "ForbiddenError",
   "NotFoundError", "ConflictError", "RateLimitError", "ServerError"}

RooguysError(message, opts) ==
  [name |-> "RooguysError", message |-> message,
   code |-> Default(Get(opts, "code"), Str("UNKNOWN_ERROR")),
   requestId |-> Default(Get(opts, "requestId"), Null),
   statusCode |-> Default(Get(opts, "statusCode"), Num(500))]

ValidationError(message, opts) ==
  [name |-> "ValidationError", message |-> message,
   code |-> Default(Get(opts, "code"), Str("VALIDATION_ERROR")),
   requestId |-> Default(Get(opts, "requestId"), Null),
   statusCode |-> Num(400),
   fieldErrors |-> Default(Get(opts, "fieldErrors"), Null)]

AuthenticationError(message, opts) ==
  [name |-> "AuthenticationError", message |-> message,
   code |-> Default(Get(opts, "code"), Str("AUTHENTICATION_ERROR")),
   requestId |-> Default(Get(opts, "requestId"), Null),
   statusCode |-> Num(401)]

ForbiddenError(message, opts) ==
  [name |-> "ForbiddenError", message |-> message,
   code |-> Default(Get(opts, "code"), Str("FORBIDDEN")),
   requestId |-> Default(Get(opts, "requestId"), Null),
   statusCode |-> Num(403)]

NotFoundError(message, opts) ==
  [name |-> "NotFoundError", message |-> message,
   code |-> Default(Get(opts, "code"), Str("NOT_FOUND")),
   requestId |-> Default(Get(opts, "requestId"), Null),
   statusCode |-> Num(404)]

ConflictError(message, opts) ==
  [name |-> "ConflictError", message |-> message,
   code |-> Default(Get(opts, "code"), Str("CONFLICT")),
   requestId |-> Default(Get(opts, "requestId"), Null),
   statusCode |-> Num(409)]

RateLimitError(message, opts) ==
  [name |-> "RateLimitError", message |-> message,
   code |-> Default(Get(opts, "code"), Str("RATE_LIMIT_EXCEEDED")),
   requestId |-> Default(Get(opts, "requestId"), Null),
   statusCode |-> Num(429),
   retryAfter |-> Default(Get(opts, "retryAfter"), Num(60))]

ServerError(message, opts) ==
  [name |-> "ServerError", message |-> message,
   code |-> Default(Get(opts, "code"), Str("SERVER_ERROR")),
   requestId |-> Default(Get(opts, "requestId"), Null),
   statusCode |-> Default(Get(opts, "statusCode"), Num(500))]

\* mapStatusToError building every ServerError with the default statusCode
mapStatusToError_ServerDefaultStatus(status, errorBody, requestId, headers) ==
  LET errorObj == IF TypeOf(Get(errorBody, "error")) = "object"
                  THEN Get(errorBody, "error") ELSE Null
      message == Or(Or(Or(Get(errorObj, "message"),
                          IF TypeOf(Get(errorBody, "error")) = "string"
                          THEN Get(errorBody, "error") ELSE Null),
                       Get(errorBody, "message")),
                    Str("An error occurred"))
      code == Or(Or(Get(errorObj, "code"), Get(errorBody, "code")), Str("UNKNOWN_ERROR"))
      fieldErrors == Or(Or(Get(errorObj, "details"), Get(errorBody, "details")), Null)
      opts == Obj([code |-> code, requestId |-> requestId])
  IN CASE status = 400 ->
            ValidationError(message,
              Obj([code |-> code, requestId |-> requestId, fieldErrors |-> fieldErrors]))
       [] status = 401 -> AuthenticationError(message, opts)
       [] status = 403 -> ForbiddenError(message, opts)
       [] status = 404 -> NotFoundError(message, opts)
       [] status = 409 -> ConflictError(message, opts)
       [] status = 429 ->
            LET retryAfter == ParseInt(Or(Or(Get(headers, "retry-after"),
                                             Get(headers, "Retry-After")),
                                          Str("60")))
            IN RateLimitError(message,
                 Obj([code |-> code, requestId |-> requestId, retryAfter |-> retryAfter]))
       [] OTHER ->
            IF status >= 500
            THEN ServerError(message, opts)
            ELSE RooguysError(message,
                   Obj([code |-> code, requestId |-> requestId, statusCode |-> Num(status)]))

\* mapStatusToError(status, errorBody, requestId, headers)
mapStatusToError(status, errorBody, requestId, headers) ==
  LET errorObj == IF TypeOf(Get(errorBody, "error")) = "object"
                  THEN Get(errorBody, "error") ELSE Null
      message == Or(Or(Or(Get(errorObj, "message"),
                          IF TypeOf(Get(errorBody, "error")) = "string"
                          THEN Get(errorBody, "error") ELSE Null),
                       Get(errorBody, "message")),
                    Str("An error occurred"))
      code == Or(Or(Get(errorObj, "code"), Get(errorBody, "code")), Str("UNKNOWN_ERROR"))
      fieldErrors == Or(Or(Get(errorObj, "details"), Get(errorBody, "details")), Null)
      opts == Obj([code |-> code, requestId |-> requestId])
  IN CASE status = 400 ->
            ValidationError(message,
              Obj([code |-> code, requestId |-> requestId, fieldErrors |-> fieldErrors]))
       [] status = 401 -> AuthenticationError(message, opts)
       [] status = 403 -> ForbiddenError(message, opts)
       [] status = 404 -> NotFoundError(message, opts)
       [] status = 409 -> ConflictError(message, opts)
       [] status = 429 ->
            LET retryAfter == ParseInt(Or(Or(Get(headers, "retry-after"),
                                             Get(headers, "Retry-After")),
                                          Str("60")))
            IN RateLimitError(message,
                 Obj([code |-> code, requestId |-> requestId, retryAfter |-> retryAfter]))
       [] OTHER ->
            IF status >= 500
            THEN ServerError(message,
                   Obj([code |-> code, requestId |-> requestId, statusCode |-> Num(status)]))
            ELSE RooguysError(message,
                   Obj([code |-> code, requestId |-> requestId, statusCode |-> Num(status)]))

\* ------------------------------------------------------------------------
\* http-client.ts: the metadata extractors and the envelope parser
\* ------------------------------------------------------------------------
\* the getHeader closure of both extractors
getHeader(headers, name) == Or(Get(headers, name), Get(headers, ToLowerCase(name)))

\* extractRateLimitInfo with a missing remaining header read as 0
extractRateLimitInfo_RemainingDefaultZero(headers) ==
  [limit |-> ParseInt(Or(Or(getHeader(headers, "X-RateLimit-Limit"),
                            getHeader(headers, "x-ratelimit-limit")), Str("1000"))),
   remaining |-> ParseInt(Or(Or(getHeader(headers, "X-RateLimit-Remaining"),
                                getHeader(headers, "x-ratelimit-remaining")), Str("0"))),
   reset |-> ParseInt(Or(Or(getHeader(headers, "X-RateLimit-Reset"),
                            getHeader(headers, "x-ratelimit-reset")), Str("0")))]

extractRateLimitInfo(headers) ==
  [limit |-> ParseInt(Or(Or(getHeader(headers, "X-RateLimit-Limit"),
                            getHeader(headers, "x-ratelimit-limit")), Str("1000"))),
   remaining |-> ParseInt(Or(Or(getHeader(headers, "X-RateLimit-Remaining"),
                                getHeader(headers, "x-ratelimit-remaining")), Str("1000"))),
   reset |-> ParseInt(Or(Or(getHeader(headers, "X-RateLimit-Reset"),
                            getHeader(headers, "x-ratelimit-reset")), Str("0")))]

\* extractRequestId looking at the body before the headers
extractRequestId_BodyFirst(headers, body) ==
  LET headerRequestId == Or(getHeader(headers, "X-Request-Id"),
                            getHeader(headers, "x-request-id"))
      bodyRequestId == IF Truthy(body) /\ TypeOf(body) = "object"
                       THEN Or(Or(Get(body, "request_id"), Get(body, "requestId")), Null)
                       ELSE Null
  IN IF Truthy(bodyRequestId) THEN bodyRequestId
     ELSE IF Truthy(headerRequestId) THEN headerRequestId ELSE Null

extractRequestId(headers, body) ==
  LET headerRequestId == Or(getHeader(headers, "X-Request-Id"),
                            getHeader(headers, "x-request-id"))
  IN IF Truthy(headerRequestId) THEN headerRequestId
     ELSE IF Truthy(body) /\ TypeOf(body) = "object"
          THEN Or(Or(Get(body, "request_id"), Get(body, "requestId")), Null)
          ELSE Null

\* parseResponseBody unwrapping the data key of a body without a boolean
\* success as well
parseResponseBody_UnwrapsLegacyData(body) ==
  IF ~Truthy(body) \/ TypeOf(body) # "object"
  THEN Obj([data |-> body, pagination |-> Null, requestId |-> Null])
  ELSE IF TypeOf(Get(body, "success")) = "boolean"
       THEN IF Truthy(Get(body, "success"))
            THEN Obj([data |-> IF HasKey(body, "data") THEN Get(body, "data") ELSE body,
                      pagination |-> Or(Get(body, "pagination"), Null),
                      requestId |-> Or(Get(body, "request_id"), Null)])
            ELSE Obj([error |-> Get(body, "error"),
                      requestId |-> Or(Get(body, "request_id"), Null)])
       ELSE Obj([data |-> IF HasKey(body, "data") THEN Get(body, "data") ELSE body,
                 pagination |-> Or(Get(body, "pagination"), Null),
                 requestId |-> Null])

\* parseResponseBody passing data and pagination on for an error envelope
parseResponseBody_ErrorKeepsData(body) ==
  IF ~Truthy(body) \/ TypeOf(body) # "object"
  THEN Obj([data |-> body, pagination |-> Null, requestId |-> Null])
  ELSE IF TypeOf(Get(body, "success")) = "boolean"
       THEN IF Truthy(Get(body, "success"))
            THEN Obj([data |-> IF HasKey(body, "data") THEN Get(body, "data") ELSE body,
                      pagination |-> Or(Get(body, "pagination"), Null),
                      requestId |-> Or(Get(body, "request_id"), Null)])
            ELSE Obj([data |-> Get(body, "data"),
                      pagination |-> Or(Get(body, "pagination"), Null),
                      error |-> Get(body, "error"),
                      requestId |-> Or(Get(body, "request_id"), Null)])
       ELSE Obj([data |-> body, pagination |-> Or(Get(body, "pagination"), Null),
                 requestId |-> Null])

\* parseResponseBody taking the data of a success envelope as
\* bodyObj.data || body
parseResponseBody_DataOrBody(body) ==
  IF ~Truthy(body) \/ TypeOf(body) # "object"
  THEN Obj([data |-> body, pagination |-> Null, requestId |-> Null])
  ELSE IF TypeOf(Get(body, "success")) = "boolean"
       THEN IF Truthy(Get(body, "success"))
            THEN Obj([data |-> Or(Get(body, "data"), body),
                      pagination |-> Or(Get(body, "pagination"), Null),
                      requestId |-> Or(Get(body, "request_id"), Null)])
            ELSE Obj([error |-> Get(body, "error"),
                      requestId |-> Or(Get(body, "request_id"), Null)])
       ELSE Obj([data |-> body, pagination |-> Or(Get(body, "pagination"), Null),
                 requestId |-> Null])

\* parseResponseBody with pagination: null for a body without a boolean
\* success
parseResponseBody_LegacyNoPagination(body) ==
  IF ~Truthy(body) \/ TypeOf(body) # "object"
  THEN Obj([data |-> body, pagination |-> Null, requestId |-> Null])
  ELSE IF TypeOf(Get(body, "success")) = "boolean"
       THEN IF Truthy(Get(body, "success"))
            THEN Obj([data |-> IF HasKey(body, "data") THEN Get(body, "data") ELSE body,
                      pagination |-> Or(Get(body, "pagination"), Null),
                      requestId |-> Or(Get(body, "request_id"), Null)])
            ELSE Obj([error |-> Get(body, "error"),
                      requestId |-> Or(Get(body, "request_id"), Null)])
       ELSE Obj([data |-> body, pagination |-> Null, requestId |-> Null])

\* parseResponseBody returning data: body || null for a body that is not an
\* object
parseResponseBody_FalsyToNull(body) ==
  IF ~Truthy(body) \/ TypeOf(body) # "object"
  THEN Obj([data |-> Or(body, Null), pagination |-> Null, requestId |-> Null])
  ELSE IF TypeOf(Get(body, "success")) = "boolean"
       THEN IF Truthy(Get(body, "success"))
            THEN Obj([data |-> IF HasKey(body, "data") THEN Get(body, "data") ELSE body,
                      pagination |-> Or(Get(body, "pagination"), Null),
                      requestId |-> Or(Get(body, "request_id"), Null)])
            ELSE Obj([error |-> Get(body, "error"),
                      requestId |-> Or(Get(body, "request_id"), Null)])
       ELSE Obj([data |-> body, pagination |-> Or(Get(body, "pagination"), Null),
                 requestId |-> Null])

\* parseResponseBody(body): an object whose keys are the fields the code sets
parseResponseBody(body) ==
  IF ~Truthy(body) \/ TypeOf(body) # "object"
  THEN Obj([data |-> body, pagination |-> Null, requestId |-> Null])
  ELSE IF TypeOf(Get(body, "success")) = "boolean"
       THEN IF Truthy(Get(body, "success"))
            THEN Obj([data |-> IF HasKey(body, "data") THEN Get(body, "data") ELSE body,
                      pagination |-> Or(Get(body, "pagination"), Null),
                      requestId |-> Or(Get(body, "request_id"), Null)])
            ELSE Obj([error |-> Get(body, "error"),
                      requestId |-> Or(Get(body, "request_id"), Null)])
       ELSE Obj([data |-> body, pagination |-> Or(Get(body, "pagination"), Null),
                 requestId |-> Null])

\* the warning test written as remaining <= limit * 0.2
BelowWarningThreshold_Inclusive(rateLimit) ==
  /\ "nan" \notin DOMAIN rateLimit.remaining
  /\ "nan" \notin DOMAIN rateLimit.limit
  /\ 5 * rateLimit.remaining.n <= rateLimit.limit.n

\* remaining < limit * 0.2; a comparison with NaN is false.  For the limits
\* of the inputs below (100 and 1000) the double limit * 0.2 is limit / 5
\* exactly, so the comparison is 5 * remaining < limit.
BelowWarningThreshold(rateLimit) ==
  /\ "nan" \notin DOMAIN rateLimit.remaining
  /\ "nan" \notin DOMAIN rateLimit.limit
  /\ 5 * rateLimit.remaining.n < rateLimit.limit.n

\* ------------------------------------------------------------------------
\* HttpClient: construction and request building
\* ------------------------------------------------------------------------
\* the largest value of the maxRetries option that is explored
MaxRetriesOpt == 3

\* no call dispatches more often than this; the guard of Dispatch keeps the
\* state space finite, NeverCapped states that the code never reaches it
DispatchCap == MaxRetriesOpt + 3

\* the constructor with auto-retry on unless it is given
HttpClient_AutoRetryDefaultOn(options) ==
  [timeout |-> Or(Get(options, "timeout"), Num(10000)),
   onRateLimitWarning |-> Or(Get(options, "onRateLimitWarning"), Null),
   autoRetry |-> Or(Get(options, "autoRetry"), Bool(TRUE)),
   maxRetries |-> Or(Get(options, "maxRetries"), Num(3)),
   retryDelay |-> Or(Get(options, "retryDelay"), Num(1000))]

\* constructor(apiKey, options)
HttpClient(options) ==
  [timeout |-> Or(Get(options, "timeout"), Num(10000)),
   onRateLimitWarning |-> Or(Get(options, "onRateLimitWarning"), Null),
   autoRetry |-> Or(Get(options, "autoRetry"), Bool(FALSE)),
   maxRetries |-> Or(Get(options, "maxRetries"), Num(3)),
   retryDelay |-> Or(Get(options, "retryDelay"), Num(1000))]

\* buildParams keeping the entries whose value is truthy
buildParams_DropsFalsy(params) ==
  Obj([k \in {key \in DOMAIN params.o : Truthy(params.o[key])} |-> params.o[k]])

\* buildParams(params): the entries whose value is neither undefined nor null
buildParams(params) ==
  Obj([k \in {key \in DOMAIN params.o : params.o[key] # Undefined /\ params.o[key] # Null}
         |-> params.o[k]])

\* the request built with the body set only when it is truthy
buildRequestConfig_BodyIfTruthy(config) ==
  LET method == Default(Get(config, "method"), Str("GET"))
      path == Get(config, "path")
      params == Default(Get(config, "params"), Obj(<<>>))
      body == Default(Get(config, "body"), Null)
      headers == Default(Get(config, "headers"), Obj(<<>>))
      idempotencyKey == Default(Get(config, "idempotencyKey"), Undefined)
      timeout == Get(config, "timeout")
      base == [method |-> method, url |-> path, params |-> buildParams(params),
               headers |-> IF Truthy(idempotencyKey)
                           THEN Obj(("X-Idempotency-Key" :> idempotencyKey) @@ headers.o)
                           ELSE Obj(headers.o)]
      withData == IF Truthy(body) THEN ("data" :> body) @@ base ELSE base
      withTimeout == IF Truthy(timeout) THEN ("timeout" :> timeout) @@ withData ELSE withData
  IN Obj(withTimeout)

\* the request configuration handed to the transport (request, lines 279-311)
buildRequestConfig(config) ==
  LET method == Default(Get(config, "method"), Str("GET"))
      path == Get(config, "path")
      params == Default(Get(config, "params"), Obj(<<>>))
      body == Default(Get(config, "body"), Null)
      headers == Default(Get(config, "headers"), Obj(<<>>))
      idempotencyKey == Default(Get(config, "idempotencyKey"), Undefined)
      timeout == Get(config, "timeout")
      base == [method |-> method, url |-> path, params |-> buildParams(params),
               headers |-> IF Truthy(idempotencyKey)
                           THEN Obj(("X-Idempotency-Key" :> idempotencyKey) @@ headers.o)
                           ELSE Obj(headers.o)]
      withData == IF body # Null THEN ("data" :> body) @@ base ELSE base
      withTimeout == IF Truthy(timeout) THEN ("timeout" :> timeout) @@ withData ELSE withData
  IN Obj(withTimeout)

\* ------------------------------------------------------------------------
\* What is thrown and caught
\* ------------------------------------------------------------------------
\* error instanceof RooguysError
IsRooguysError(e) == "name" \in DOMAIN e /\ e.name \in RooguysErrorClasses
\* axios.isAxiosError(error)
IsAxiosError(e) == "isAxiosError" \in DOMAIN e /\ e.isAxiosError
\* error instanceof Error
IsError(e) == "name" \in DOMAIN e

AxiosError(message, response) ==
  [name |-> "AxiosError", isAxiosError |-> TRUE, message |-> Str(message), response |-> response]
PlainError(message) == [name |-> "Error", message |-> Str(message)]

\* TryBlock classifying a logical error by the status of the response
TryBlock_UsesResponseStatus(cl, response) ==
  LET rateLimit == extractRateLimitInfo(Get(response, "headers"))
      warn == BelowWarningThreshold(rateLimit) /\ Truthy(cl.onRateLimitWarning)
      requestId == extractRequestId(Get(response, "headers"), Get(response, "data"))
      parsed == parseResponseBody(Get(response, "data"))
      warned == IF warn THEN <<rateLimit>> ELSE <<>>
  IN IF warn /\ "throws" \in DOMAIN cl.onRateLimitWarning
     THEN [do |-> "throw", warned |-> warned, error |-> cl.onRateLimitWarning.throws]
     ELSE IF Truthy(Get(parsed, "error"))
     THEN [do |-> "throw", warned |-> warned,
           error |-> mapStatusToError(Get(response, "status").n,
                                      Obj([error |-> Get(parsed, "error")]),
                                      requestId, Obj(<<>>))]
     ELSE [do |-> "return", warned |-> warned,
           result |-> [data |-> Get(parsed, "data"),
                       requestId |-> Or(Or(requestId, Get(parsed, "requestId")), Null),
                       rateLimit |-> rateLimit,
                       pagination |-> Get(parsed, "pagination")]]

\* the try block of request after the transport resolved (lines 316-340):
\* what it does (return or throw) and the arguments the warning callback got;
\* what the callback throws is thrown inside the try block (line 321)
TryBlock(cl, response) ==
  LET rateLimit == extractRateLimitInfo(Get(response, "headers"))
      warn == BelowWarningThreshold(rateLimit) /\ Truthy(cl.onRateLimitWarning)
      requestId == extractRequestId(Get(response, "headers"), Get(response, "data"))
      parsed == parseResponseBody(Get(response, "data"))
      warned == IF warn THEN <<rateLimit>> ELSE <<>>
  IN IF warn /\ "throws" \in DOMAIN cl.onRateLimitWarning
     THEN [do |-> "throw", warned |-> warned, error |-> cl.onRateLimitWarning.throws]
     ELSE IF Truthy(Get(parsed, "error"))
     THEN [do |-> "throw", warned |-> warned,
           error |-> mapStatusToError(400, Obj([error |-> Get(parsed, "error")]),
                                      requestId, Obj(<<>>))]
     ELSE [do |-> "return", warned |-> warned,
           result |-> [data |-> Get(parsed, "data"),
                       requestId |-> Or(Or(requestId, Get(parsed, "requestId")), Null),
                       rateLimit |-> rateLimit,
                       pagination |-> Get(parsed, "pagination")]]

\* the mapped error of the axios branch of the catch block (lines 349-358)
MappedError(error) ==
  LET status == Or(Get(error.response, "status"), Num(0))
      responseData == Or(Get(error.response, "data"), Null)
      responseHeaders == Or(Get(error.response, "headers"), Obj(<<>>))
      requestId == extractRequestId(responseHeaders, responseData)
  IN mapStatusToError(status.n, responseData, requestId,
       Obj(("retry-after" :> Get(responseHeaders, "retry-after"))
           @@ ("Retry-After" :> Get(responseHeaders, "Retry-After"))))

\* lines 370-379 of the catch block: what is thrown for an error that is
\* neither a RooguysError nor an axios error
UnclassifiedError(error) ==
  IF IsError(error) /\ Includes(error.message.s, "timeout")
  THEN RooguysError(Str("Request timeout"),
                    Obj([code |-> Str("TIMEOUT"), statusCode |-> Num(408)]))
  ELSE RooguysError(IF IsError(error) THEN error.message ELSE Str("Network error"),
                    Obj([code |-> Str("NETWORK_ERROR"), statusCode |-> Num(0)]))

\* CatchBlock with the retry test written as retryCount <= maxRetries
CatchBlock_OffByOne(cl, error, count) ==
  IF IsRooguysError(error) THEN [do |-> "throw", error |-> error]
  ELSE IF IsAxiosError(error)
  THEN LET mappedError == MappedError(error)
       IN IF /\ Truthy(cl.autoRetry)
             /\ mappedError.name = "RateLimitError"
             /\ count <= cl.maxRetries.n
          THEN [do |-> "retry", error |-> mappedError,
                ms |-> Mul(mappedError.retryAfter, Num(1000))]
          ELSE [do |-> "throw", error |-> mappedError]
  ELSE [do |-> "throw", error |-> UnclassifiedError(error)]

\* CatchBlock retrying every HTTP error, after the configured retryDelay
CatchBlock_RetryAnyStatus(cl, error, count) ==
  IF IsRooguysError(error) THEN [do |-> "throw", error |-> error]
  ELSE IF IsAxiosError(error)
  THEN LET mappedError == MappedError(error)
       IN IF Truthy(cl.autoRetry) /\ count < cl.maxRetries.n
          THEN [do |-> "retry", error |-> mappedError, ms |-> cl.retryDelay]
          ELSE [do |-> "throw", error |-> mappedError]
  ELSE [do |-> "throw", error |-> UnclassifiedError(error)]

\* CatchBlock sleeping retryAfter times the configured retryDelay
CatchBlock_ScaledByRetryDelay(cl, error, count) ==
  IF IsRooguysError(error) THEN [do |-> "throw", error |-> error]
  ELSE IF IsAxiosError(error)
  THEN LET mappedError == MappedError(error)
       IN IF /\ Truthy(cl.autoRetry)
             /\ mappedError.name = "RateLimitError"
             /\ count < cl.maxRetries.n
          THEN [do |-> "retry", error |-> mappedError,
                ms |-> Mul(mappedError.retryAfter, cl.retryDelay)]
          ELSE [do |-> "throw", error |-> mappedError]
  ELSE [do |-> "throw", error |-> UnclassifiedError(error)]

\* CatchBlock without the instanceof RooguysError test
CatchBlock_NoRethrow(cl, error, count) ==
  IF IsAxiosError(error)
  THEN LET mappedError == MappedError(error)
       IN IF /\ Truthy(cl.autoRetry)
             /\ mappedError.name = "RateLimitError"
             /\ count < cl.maxRetries.n
          THEN [do |-> "retry", error |-> mappedError,
                ms |-> Mul(mappedError.retryAfter, Num(1000))]
          ELSE [do |-> "throw", error |-> mappedError]
  ELSE [do |-> "throw", error |-> UnclassifiedError(error)]

\* CatchBlock letting what is neither a RooguysError nor an axios error escape
CatchBlock_UnclassifiedEscapes(cl, error, count) ==
  IF IsRooguysError(error) THEN [do |-> "throw", error |-> error]
  ELSE IF IsAxiosError(error)
  THEN LET mappedError == MappedError(error)
       IN IF /\ Truthy(cl.autoRetry)
             /\ mappedError.name = "RateLimitError"
             /\ count < cl.maxRetries.n
          THEN [do |-> "retry", error |-> mappedError,
                ms |-> Mul(mappedError.retryAfter, Num(1000))]
          ELSE [do |-> "throw", error |-> mappedError]
  ELSE [do |-> "throw", error |-> error]

\* the catch block of request (lines 341-380): rethrow, or sleep and retry
CatchBlock(cl, error, count) ==
  IF IsRooguysError(error) THEN [do |-> "throw", error |-> error]
  ELSE IF IsAxiosError(error)
  THEN LET mappedError == MappedError(error)
       IN IF /\ Truthy(cl.autoRetry)
             /\ mappedError.name = "RateLimitError"
             /\ count < cl.maxRetries.n
          THEN [do |-> "retry", error |-> mappedError,
                ms |-> Mul(mappedError.retryAfter, Num(1000))]
          ELSE [do |-> "throw", error |-> mappedError]
  ELSE [do |-> "throw", error |-> UnclassifiedError(error)]

\* ------------------------------------------------------------------------
\* The inputs: client options, request configurations, transport outcomes
\* ------------------------------------------------------------------------
\* a callback that returns normally, and one that throws e
WarningCallback == [t |-> "function", f |-> "onRateLimitWarning"]
ThrowingCallback(e) == [t |-> "function", f |-> "onRateLimitWarning", throws |-> e]

OptionsSet ==
  {Obj([autoRetry |-> a, maxRetries |-> m, retryDelay |-> d, onRateLimitWarning |-> w]) :
     a \in {Undefined, Bool(TRUE), Bool(FALSE)},
     m \in {Undefined} \cup {Num(n) : n \in 0..MaxRetriesOpt},
     d \in {Undefined, Num(500)},
     w \in {Undefined, WarningCallback}}

RequestConfigs ==
  {Obj([path |-> Str("/users/u1")]),
   Obj([method |-> Str("POST"), path |-> Str("/events"),
        params |-> Obj([limit |-> Num(0), page |-> Undefined, q |-> Null,
                        s |-> Str(""), live |-> Bool(FALSE), size |-> Num(50),
                        cursor |-> Str("abc"), active |-> Bool(TRUE)]),
        body |-> Obj([event_name |-> Str("purchase")]),
        headers |-> Obj([Accept |-> Str("application/json")]),
        idempotencyKey |-> Str("key-1"),
        timeout |-> Num(5000)]),
   Obj([method |-> Str("DELETE"), path |-> Str("/users/u1"), body |-> Null,
        idempotencyKey |-> Str(""), timeout |-> Num(0)]),
   Obj([method |-> Str("PUT"), path |-> Str("/counters/c1"), body |-> Num(0),
        headers |-> Obj(("X-Idempotency-Key" :> Str("stale"))
                        @@ ("X-Trace" :> Str("t-1"))),
        idempotencyKey |-> Str("key-2")])}

NoHeaders == Obj(<<>>)

ScenarioHeaders ==
  Obj(("x-ratelimit-limit" :> Str("1000")) @@ ("x-ratelimit-remaining" :> Str("999"))
      @@ ("x-request-id" :> Str("req-h")))

ScenarioBody ==
  Obj([success |-> Bool(TRUE), request_id |-> Str("req-b"),
       data |-> Obj([user_id |-> Str("u1"), points |-> Num(10)])])

OkHeaders ==
  {NoHeaders,
   ScenarioHeaders,
   Obj(("X-RateLimit-Limit" :> Str("100")) @@ ("X-RateLimit-Remaining" :> Str("19"))
       @@ ("X-RateLimit-Reset" :> Str("170"))),
   Obj(("x-ratelimit-limit" :> Str("100")) @@ ("x-ratelimit-remaining" :> Str("20"))),
   Obj(("x-ratelimit-limit" :> Str("100")) @@ ("x-ratelimit-remaining" :> Str("abc")))}

OkBodies ==
  {ScenarioBody,
   Obj([success |-> Bool(TRUE), data |-> Arr(<<Num(1)>>),
        pagination |-> Obj([page |-> Num(1), limit |-> Num(50),
                            total |-> Num(1), totalPages |-> Num(1)])]),
   Obj([success |-> Bool(TRUE), message |-> Str("ok")]),
   Obj([success |-> Bool(TRUE), data |-> Null]),
   Obj([success |-> Bool(FALSE), request_id |-> Str("req-b"),
        error |-> Obj([message |-> Str("User ID is required"),
                       code |-> Str("MISSING_USER_ID")])]),
   Obj([success |-> Bool(FALSE), error |-> Str("oops")]),
   Obj([success |-> Bool(FALSE), error |-> Obj(<<>>)]),
   Obj([success |-> Bool(FALSE), error |-> Str("")]),
   Obj([success |-> Bool(FALSE), error |-> Null, data |-> Obj([user_id |-> Str("u1")])]),
   Obj([success |-> Bool(FALSE)]),
   Obj([user_id |-> Str("u1"), points |-> Num(5)]),
   Obj([items |-> Arr(<<>>), requestId |-> Str("req-c"),
        pagination |-> Obj([page |-> Num(2), limit |-> Num(10),
                            total |-> Num(11), totalPages |-> Num(2)])]),
   Null, Str("plain"), Arr(<<>>)}

ErrorStatuses == {400, 401, 403, 404, 409, 429, 500, 503, 418}

RequestIdHeaders == Obj(("retry-after" :> Str("30")) @@ ("x-request-id" :> Str("req-e")))

ErrorHeaders ==
  {NoHeaders,
   RequestIdHeaders,
   Obj(("Retry-After" :> Str("7")) @@ ("x-ratelimit-limit" :> Str("100"))
       @@ ("x-ratelimit-remaining" :> Str("0"))),
   Obj(("retry-after" :> Str("soon"))),
   Obj(("retry-after" :> Str("0")))}

RateLimitBody ==
  Obj([success |-> Bool(FALSE),
       error |-> Obj([message |-> Str("Rate limit exceeded"),
                      code |-> Str("RATE_LIMIT_EXCEEDED")])])

ErrorBodies ==
  {Null,
   RateLimitBody,
   Obj([error |-> Str("Validation failed")]),
   Obj([message |-> Str("flat"), code |-> Str("E_FLAT"), request_id |-> Str("req-b")])}

\* what the transport does with a dispatched request: it resolves with a 2xx
\* response, rejects with an AxiosError that carries the response of any
\* other status or carries none, or throws something else
Response(h, b) ==
  [settled |-> "resolved", value |-> Obj([status |-> Num(200), headers |-> h, data |-> b])]

\* the request ID in the headers (either spelling, both, empty) and in the
\* body (request_id, requestId, both, none)
RequestIdHeaderCases ==
  {Obj(("X-Request-Id" :> Str("req-H"))),
   Obj(("X-Request-Id" :> Str("req-H")) @@ ("x-request-id" :> Str("req-h"))),
   Obj(("x-request-id" :> Str("")))}

RequestIdBodyCases ==
  {Obj([request_id |-> Str("req-b"), requestId |-> Str("req-c"), points |-> Num(1)]),
   Obj([success |-> Bool(TRUE), requestId |-> Str("req-c"), data |-> Null]),
   Obj([success |-> Bool(FALSE), request_id |-> Str("req-b"), error |-> Str("oops")]),
   Str("plain")}

Resolutions ==
  {Response(h, b) : h \in {NoHeaders, ScenarioHeaders}, b \in OkBodies}
  \cup
  {Response(h, ScenarioBody) : h \in OkHeaders}
  \cup
  {Response(h, b) : h \in RequestIdHeaderCases, b \in RequestIdBodyCases}

\* an AxiosError that carries the response of a non-2xx status
HttpError(st, h, b) ==
  [settled |-> "rejected",
   value |-> AxiosError("Request failed",
                        Obj([status |-> Num(st), headers |-> h, data |-> b]))]

Rejections ==
  {HttpError(429, h, b) : h \in ErrorHeaders, b \in {Null, RateLimitBody}}
  \cup
  {HttpError(st, NoHeaders, b) : st \in ErrorStatuses, b \in ErrorBodies}
  \cup
  {HttpError(st, RequestIdHeaders, RateLimitBody) : st \in ErrorStatuses}
  \cup
  {HttpError(404, h, b) : h \in RequestIdHeaderCases \cup {RequestIdHeaders},
                          b \in RequestIdBodyCases}
  \cup
  {[settled |-> "rejected", value |-> e] :
     e \in {AxiosError("timeout of 10000ms exceeded", Undefined),
            AxiosError("Network Error", Undefined),
            PlainError("timeout of 5000ms exceeded"),
            PlainError("socket hang up"),
            Str("boom")}}

\* the transport answered with HTTP 429
Is429(o) ==
  /\ o.settled = "rejected"
  /\ IsAxiosError(o.value)
  /\ Get(o.value.response, "status") = Num(429)

\* ------------------------------------------------------------------------
\* The state: one client, and the calls of request made on it
\* ------------------------------------------------------------------------
Calls == {"c1", "c2"}

VARIABLES
  options,      \* the options the client was constructed with
  client,       \* the fields of the HttpClient
  config,       \* per call: the RequestConfig argument
  pc,           \* per call: where the call is
  retryCount,   \* per call: the retryCount argument of the current activation
  sent,         \* per call: the request configurations handed to the transport
  resp,         \* per call: how the transport settled the dispatch of this activation
  raised,       \* per call: the error thrown inside the try block, if any
  sleepCount,   \* per call: the number of sleeps started
  sleeping,     \* per call: the argument of the sleep in progress, if any
  outcome,      \* per call: what the caller gets, a result or a thrown error
  warnings,     \* per call: the arguments of its warning callback invocations
  n429,         \* per call: the number of HTTP 429 answers received
  applied,      \* the last direct application of an exported function
  invoked,      \* per call: how it was made, by request(config, retryCount)
                \* itself or through a method of the SDK and its arguments
  returned,     \* per call: what the method of the SDK returned or threw
  heard         \* per call: the transport outcomes it got so far, where the
                \* call is observed (nothing where it is not)

vars == <<options, client, config, pc, retryCount, sent, resp, raised,
          sleepCount, sleeping, outcome, warnings, n429, applied,
          invoked, returned, heard>>

\* a call of request itself, entered with the given retryCount
ByRequest(count) == [method |-> "request", retryCount |-> count]

\* the outcome o is added to what the call c heard
Hears(c, o) ==
  heard' = [heard EXCEPT ![c].outcomes = IF heard[c].observed THEN Append(@, o) ELSE @]

\* no exported function has been applied directly
NotApplied == [fn |-> "none"]

Final == {"Succeeded", "Failed"}

\* the state after construction of a client and the calls of request in
\* active, each entered with a retryCount of counts
InitFrom(optionSet, configSet, active, counts) ==
  /\ options \in optionSet
  /\ client = HttpClient(options)
  /\ config \in [Calls -> configSet]
  /\ \A c \in Calls \ active : config[c] = CHOOSE cfg \in configSet : TRUE
  /\ pc = [c \in Calls |-> IF c \in active THEN "Building" ELSE "Unused"]
  /\ retryCount \in [Calls -> counts]
  /\ \A c \in Calls \ active : retryCount[c] = CHOOSE r \in counts : TRUE
  /\ invoked = [c \in Calls |-> ByRequest(retryCount[c])]
  /\ returned = [c \in Calls |-> Undefined]
  /\ heard = [c \in Calls |-> [observed |-> FALSE, outcomes |-> <<>>]]
  /\ sent = [c \in Calls |-> <<>>]
  /\ resp = [c \in Calls |-> Undefined]
  /\ raised = [c \in Calls |-> Undefined]
  /\ sleepCount = [c \in Calls |-> 0]
  /\ sleeping = [c \in Calls |-> Undefined]
  /\ outcome = [c \in Calls |-> Undefined]
  /\ warnings = [c \in Calls |-> <<>>]
  /\ n429 = [c \in Calls |-> 0]
  /\ applied = NotApplied

\* the same with every call entered with retryCount = 0, the default
InitWith(optionSet, configSet, active) == InitFrom(optionSet, configSet, active, {0})

Init == InitWith(OptionsSet, RequestConfigs, {"c1"})

\* Dispatch sending a retry without the idempotency key
Dispatch_RetryDropsKey(c) ==
  /\ pc[c] = "Building"
  /\ Len(sent[c]) < DispatchCap
  /\ LET stripped == Obj([k \in DOMAIN config[c].o \ {"idempotencyKey"} |-> config[c].o[k]])
     IN sent' = [sent EXCEPT ![c] =
                   Append(@, buildRequestConfig(IF retryCount[c] > 0 THEN stripped
                                                ELSE config[c]))]
  /\ pc' = [pc EXCEPT ![c] = "Dispatching"]
  /\ UNCHANGED <<applied, invoked, returned, heard, options, client, config, retryCount, resp, raised, sleepCount,
                 sleeping, outcome, warnings, n429>>

\* lines 279-314: build the request and hand it to the transport
Dispatch(c) ==
  /\ pc[c] = "Building"
  /\ Len(sent[c]) < DispatchCap
  /\ sent' = [sent EXCEPT ![c] = Append(@, buildRequestConfig(config[c]))]
  /\ pc' = [pc EXCEPT ![c] = "Dispatching"]
  /\ UNCHANGED <<applied, invoked, returned, heard, options, client, config, retryCount, resp, raised, sleepCount,
                 sleeping, outcome, warnings, n429>>

\* the transport resolves the pending dispatch
TransportResolves(c) ==
  /\ pc[c] = "Dispatching"
  /\ \E o \in Resolutions : resp' = [resp EXCEPT ![c] = o] /\ Hears(c, o)
  /\ pc' = [pc EXCEPT ![c] = "Interpreting"]
  /\ UNCHANGED <<applied, invoked, returned, options, client, config, retryCount, sent, raised, sleepCount,
                 sleeping, outcome, warnings, n429>>

\* the transport rejects the pending dispatch
TransportRejects(c) ==
  /\ pc[c] = "Dispatching"
  /\ \E o \in Rejections :
       /\ resp' = [resp EXCEPT ![c] = o]
       /\ n429' = [n429 EXCEPT ![c] =
                     IF Is429(o) THEN @ + 1 ELSE @]
       /\ Hears(c, o)
  /\ pc' = [pc EXCEPT ![c] = "Interpreting"]
  /\ UNCHANGED <<applied, invoked, returned, options, client, config, retryCount, sent, raised, sleepCount,
                 sleeping, outcome, warnings>>

\* Caught with the recursive call not returned: the mapped error is thrown
\* once the sleep is over
Caught_RetryNotReturned(c, error) ==
  \E h \in {CatchBlock(client, error, retryCount[c])} :
     /\ pc' = [pc EXCEPT ![c] = "Failed"]
     /\ outcome' = [outcome EXCEPT ![c] = [ok |-> FALSE, error |-> h.error]]
     /\ sleepCount' = [sleepCount EXCEPT ![c] = IF h.do = "retry" THEN @ + 1 ELSE @]
     /\ UNCHANGED sleeping

\* lines 341-380: the catch block runs on error; the call throws, or starts
\* the sleep that precedes a retry
Caught(c, error) ==
  \E h \in {CatchBlock(client, error, retryCount[c])} :
     IF h.do = "retry"
     THEN /\ pc' = [pc EXCEPT ![c] = "Retrying"]
          /\ sleepCount' = [sleepCount EXCEPT ![c] = @ + 1]
          /\ sleeping' = [sleeping EXCEPT ![c] = h.ms]
          /\ UNCHANGED outcome
     ELSE /\ pc' = [pc EXCEPT ![c] = "Failed"]
          /\ outcome' = [outcome EXCEPT ![c] = [ok |-> FALSE, error |-> h.error]]
          /\ UNCHANGED <<sleepCount, sleeping>>

\* lines 316-345: the continuation of the try block after a resolved dispatch
InterpretResponse(c) ==
  /\ pc[c] = "Interpreting"
  /\ resp[c].settled = "resolved"
  /\ \E t \in {TryBlock(client, resp[c].value)} :
        /\ warnings' = [warnings EXCEPT ![c] = @ \o t.warned]
        /\ IF t.do = "return"
           THEN /\ pc' = [pc EXCEPT ![c] = "Succeeded"]
                /\ outcome' = [outcome EXCEPT ![c] = [ok |-> TRUE, value |-> t.result]]
                /\ UNCHANGED <<raised, sleepCount, sleeping>>
           ELSE /\ raised' = [raised EXCEPT ![c] = t.error]
                /\ Caught(c, t.error)
  /\ UNCHANGED <<applied, invoked, returned, heard, options, client, config, retryCount, sent, resp, n429>>

\* HandleRejection looking at the rate limit of an error response as well
\* and invoking the warning callback for it
HandleRejection_WarnsOnErrorResponse(c) ==
  /\ pc[c] = "Interpreting"
  /\ resp[c].settled = "rejected"
  /\ Caught(c, resp[c].value)
  /\ LET response == IF IsAxiosError(resp[c].value) THEN resp[c].value.response
                      ELSE Undefined
         rateLimit == extractRateLimitInfo(Or(Get(response, "headers"), Obj(<<>>)))
     IN warnings' = [warnings EXCEPT ![c] =
                       IF BelowWarningThreshold(rateLimit) /\ Truthy(client.onRateLimitWarning)
                       THEN Append(@, rateLimit) ELSE @]
  /\ UNCHANGED <<applied, invoked, returned, heard, options, client, config, retryCount, sent, resp, raised, n429>>

\* lines 341-380 after a rejected dispatch
HandleRejection(c) ==
  /\ pc[c] = "Interpreting"
  /\ resp[c].settled = "rejected"
  /\ Caught(c, resp[c].value)
  /\ UNCHANGED <<applied, invoked, returned, heard, options, client, config, retryCount, sent, resp, raised, warnings, n429>>

\* Wake calling request again with the same retryCount
Wake_SameCount(c) ==
  /\ pc[c] = "Retrying"
  /\ pc' = [pc EXCEPT ![c] = "Building"]
  /\ sleeping' = [sleeping EXCEPT ![c] = Undefined]
  /\ resp' = [resp EXCEPT ![c] = Undefined]
  /\ UNCHANGED <<applied, invoked, returned, heard, options, client, config, retryCount, sent, raised, sleepCount,
                 outcome, warnings, n429>>

\* Wake with the attempt counter kept on the client: the end of one call's
\* sleep counts as an attempt of every call
Wake_CounterOnClient(c) ==
  /\ pc[c] = "Retrying"
  /\ retryCount' = [d \in Calls |-> retryCount[d] + 1]
  /\ pc' = [pc EXCEPT ![c] = "Building"]
  /\ sleeping' = [sleeping EXCEPT ![c] = Undefined]
  /\ resp' = [resp EXCEPT ![c] = Undefined]
  /\ UNCHANGED <<applied, invoked, returned, heard, options, client, config, sent, raised, sleepCount,
                 outcome, warnings, n429>>

\* Wake calling request again with retryCount = 1, as if every call had
\* been entered with 0
Wake_RestartsCount(c) ==
  /\ pc[c] = "Retrying"
  /\ retryCount' = [retryCount EXCEPT ![c] = 1]
  /\ pc' = [pc EXCEPT ![c] = "Building"]
  /\ sleeping' = [sleeping EXCEPT ![c] = Undefined]
  /\ resp' = [resp EXCEPT ![c] = Undefined]
  /\ UNCHANGED <<applied, invoked, returned, heard, options, client, config, sent, raised,
                 sleepCount, outcome, warnings, n429>>

\* lines 363-364: the sleep ends and request calls itself with retryCount + 1
Wake(c) ==
  /\ pc[c] = "Retrying"
  /\ retryCount' = [retryCount EXCEPT ![c] = @ + 1]
  /\ pc' = [pc EXCEPT ![c] = "Building"]
  /\ sleeping' = [sleeping EXCEPT ![c] = Undefined]
  /\ resp' = [resp EXCEPT ![c] = Undefined]
  /\ UNCHANGED <<applied, invoked, returned, heard, options, client, config, sent, raised, sleepCount,
                 outcome, warnings, n429>>

DispatchStep == \E c \in Calls : Dispatch(c)
ResolveStep == \E c \in Calls : TransportResolves(c)
RejectStep == \E c \in Calls : TransportRejects(c)
InterpretStep == \E c \in Calls : InterpretResponse(c)
RejectionStep == \E c \in Calls : HandleRejection(c)
WakeStep == \E c \in Calls : Wake(c)

Next ==
  \/ DispatchStep
  \/ ResolveStep
  \/ RejectStep
  \/ InterpretStep
  \/ RejectionStep
  \/ WakeStep

Spec == Init /\ [][Next]_vars

\* the guard on the number of dispatches never decides anything
NeverCapped == \A c \in Calls : Len(sent[c]) < DispatchCap

\* clients whose warning callback is absent, returns normally, or throws
CallbackOptions ==
  {Obj([autoRetry |-> a, maxRetries |-> m, onRateLimitWarning |-> w]) :
     a \in {Undefined, Bool(TRUE)},
     m \in {Undefined, Num(1)},
     w \in {Undefined, WarningCallback, ThrowingCallback(PlainError("callback failed"))}}

CallbackInit == InitWith(CallbackOptions, {Obj([path |-> Str("/users/u1")])}, {"c1"})

CallbackSpec == CallbackInit /\ [][Next]_vars

\* two calls in flight on one client, with auto-retry on and with the defaults
ConcurrentOptions == {Obj([autoRetry |-> Bool(TRUE), maxRetries |-> Num(1)]), Obj(<<>>)}

ConcurrentInit == InitWith(ConcurrentOptions, {Obj([path |-> Str("/users/u1")])}, Calls)

ConcurrentSpec == ConcurrentInit /\ [][Next]_vars

\* a call of request entered with an explicit retryCount, from below 0 to
\* above the largest maxRetries
ResumedCounts == (0 - 1)..(MaxRetriesOpt + 1)

ResumedOptions ==
  {Obj([autoRetry |-> a, maxRetries |-> m]) :
     a \in {Undefined, Bool(TRUE)},
     m \in {Undefined} \cup {Num(n) : n \in 0..MaxRetriesOpt}}

ResumedInit ==
  InitFrom(ResumedOptions, {Obj([path |-> Str("/users/u1")])}, {"c1"}, ResumedCounts)

ResumedSpec == ResumedInit /\ [][Next]_vars

\* two calls on one client with the same request configuration, both
\* observed: the transport answers the dispatches of c1 as it likes and the
\* dispatches of c2 with what c1 heard for its dispatch of the same number
TwinOptions ==
  {Obj([autoRetry |-> Bool(TRUE), maxRetries |-> Num(1),
        onRateLimitWarning |-> WarningCallback]),
   Obj([onRateLimitWarning |-> WarningCallback])}

TwinConfigs ==
  {Obj([path |-> Str("/users/u1")]),
   Obj([method |-> Str("POST"), path |-> Str("/events"),
        body |-> Obj([event_name |-> Str("purchase")]),
        idempotencyKey |-> Str("key-1")])}

TwinInit ==
  /\ options \in TwinOptions
  /\ client = HttpClient(options)
  /\ \E cfg \in TwinConfigs : config = [c \in Calls |-> cfg]
  /\ pc = [c \in Calls |-> "Building"]
  /\ retryCount = [c \in Calls |-> 0]
  /\ invoked = [c \in Calls |-> ByRequest(0)]
  /\ returned = [c \in Calls |-> Undefined]
  /\ heard = [c \in Calls |-> [observed |-> TRUE, outcomes |-> <<>>]]
  /\ sent = [c \in Calls |-> <<>>]
  /\ resp = [c \in Calls |-> Undefined]
  /\ raised = [c \in Calls |-> Undefined]
  /\ sleepCount = [c \in Calls |-> 0]
  /\ sleeping = [c \in Calls |-> Undefined]
  /\ outcome = [c \in Calls |-> Undefined]
  /\ warnings = [c \in Calls |-> <<>>]
  /\ n429 = [c \in Calls |-> 0]
  /\ applied = NotApplied

\* the transport settles the pending dispatch of c2 as it settled the
\* dispatch of c1 of the same number
TransportRepeats(c) ==
  /\ c = "c2"
  /\ pc[c] = "Dispatching"
  /\ Len(heard["c1"].outcomes) > Len(heard[c].outcomes)
  /\ \E o \in {heard["c1"].outcomes[Len(heard[c].outcomes) + 1]} :
       /\ resp' = [resp EXCEPT ![c] = o]
       /\ n429' = [n429 EXCEPT ![c] = IF Is429(o) THEN @ + 1 ELSE @]
       /\ Hears(c, o)
  /\ pc' = [pc EXCEPT ![c] = "Interpreting"]
  /\ UNCHANGED <<applied, invoked, returned, options, client, config, retryCount, sent,
                 raised, sleepCount, sleeping, outcome, warnings>>

FirstResolves == TransportResolves("c1")
FirstRejects == TransportRejects("c1")
SecondRepeats == TransportRepeats("c2")

TwinNext ==
  \/ DispatchStep
  \/ FirstResolves
  \/ FirstRejects
  \/ SecondRepeats
  \/ InterpretStep
  \/ RejectionStep
  \/ WakeStep

TwinSpec == TwinInit /\ [][TwinNext]_vars

\* ------------------------------------------------------------------------
\* dist/index.js: the methods of the SDK that validate their arguments, and
\* health.isReady
\* ------------------------------------------------------------------------
\* the client the constructor of Rooguys makes
Rooguys(opts) ==
  HttpClient(Obj([baseUrl |-> Or(Get(opts, "baseUrl"), Str("https://api.rooguys.com/v1")),
                  timeout |-> Or(Get(opts, "timeout"), Num(10000)),
                  onRateLimitWarning |-> Get(opts, "onRateLimitWarning"),
                  autoRetry |-> Get(opts, "autoRetry"),
                  maxRetries |-> Get(opts, "maxRetries")]))

\* get(path, params = {}, options = {}) and post(path, body = null,
\* options = {}): the argument of request, where the entries of options come
\* last
get(path, params, opts) ==
  Obj(Default(opts, Obj(<<>>)).o
      @@ [method |-> Str("GET"), path |-> path, params |-> Default(params, Obj(<<>>))])

post(path, body, opts) ==
  Obj(Default(opts, Obj(<<>>)).o
      @@ [method |-> Str("POST"), path |-> path, body |-> Default(body, Null)])

\* a number with a fractional part: n + tenths / 10
Fraction(n, tenths) == [t |-> "number", n |-> n, tenths |-> tenths]

\* Number.isInteger(v)
IsInteger(v) ==
  Once(v, LAMBDA x : x.t = "number" /\ "n" \in DOMAIN x /\ "tenths" \notin DOMAIN x)

\* Array.isArray(v)
IsArray(v) == Once(v, LAMBDA x : x.t = "object" /\ "a" \in DOMAIN x)

\* a Date, by its time value in milliseconds (NaN for an Invalid Date)
Date(ms) == [t |-> "object", date |-> ms]
IsDate(v) == Once(v, LAMBDA x : x.t = "object" /\ "date" \in DOMAIN x)

\* Date.parse on the strings the model passes to it
DateParse(s) ==
  CASE s = "1970-01-01T00:00:00.000Z" -> Num(0)
    [] OTHER -> NaN

\* new Date(v)
NewDate(v) ==
  Once(v, LAMBDA x : CASE IsDate(x) -> x
                       [] x.t = "number" -> Date(x)
                       [] x.t = "string" -> Date(DateParse(x.s))
                       [] x = Null -> Date(Num(0))
                       [] OTHER -> Date(NaN))

\* Date.now(), and the 7 * 24 * 60 * 60 * 1000 ms before it
Now == 10 * 86400000 + 3723004
SevenDaysAgo == Date(Num(Now - 7 * 24 * 60 * 60 * 1000))

\* a < b on dates: false when either is an Invalid Date
DateBefore(a, b) == "n" \in DOMAIN a.date /\ "n" \in DOMAIN b.date /\ a.date.n < b.date.n

\* n in decimal digits, at least width of them
RECURSIVE Padded(_, _)
Padded(n, width) ==
  IF Len(ToString(n)) < width THEN "0" \o Padded(n, width - 1) ELSE ToString(n)

\* Date.prototype.toISOString, for the dates from 1970 on: the date of the
\* proleptic Gregorian calendar and the time of day in UTC
ToISOString(d) ==
  LET ms == d.date.n
      days == ms \div 86400000
      rest == ms % 86400000
      z == days + 719468
      era == z \div 146097
      doe == z - era * 146097
      yoe == (doe - doe \div 1460 + doe \div 36524 - doe \div 146096) \div 365
      doy == doe - (365 * yoe + yoe \div 4 - yoe \div 100)
      mp == (5 * doy + 2) \div 153
      day == doy - (153 * mp + 2) \div 5 + 1
      month == IF mp < 10 THEN mp + 3 ELSE mp - 9
      year == yoe + era * 400 + (IF month <= 2 THEN 1 ELSE 0)
  IN Str(Padded(year, 4) \o "-" \o Padded(month, 2) \o "-" \o Padded(day, 2) \o "T"
         \o Padded(rest \div 3600000, 2) \o ":" \o Padded((rest % 3600000) \div 60000, 2)
         \o ":" \o Padded((rest % 60000) \div 1000, 2) \o "." \o Padded(rest % 1000, 3)
         \o "Z")

\* what is thrown by reading a property of undefined or null, and by
\* toISOString on an Invalid Date
TypeError(message) == [name |-> "TypeError", message |-> Str(message)]
RangeError(message) == [name |-> "RangeError", message |-> Str(message)]

\* /^[^\s@]+@[^\s@]+\.[^\s@]+$/.test(s): s splits at an "@" and at a later
\* "." into three non-empty parts without white space and without "@"
NoSpaceNoAt(s, from, to) ==
  from <= to /\ \A i \in from..to : CharAt(s, i) \notin {" ", "@"}

emailRegex(s) ==
  \E at \in 1..Len(s) : \E dot \in 1..Len(s) :
    /\ at < dot
    /\ CharAt(s, at) = "@"
    /\ CharAt(s, dot) = "."
    /\ NoSpaceNoAt(s, 1, at - 1)
    /\ NoSpaceNoAt(s, at + 1, dot - 1)
    /\ NoSpaceNoAt(s, dot + 1, Len(s))

\* isValidEmail(email)
isValidEmail(email) ==
  Once(email, LAMBDA x : IF ~Truthy(x) \/ TypeOf(x) # "string" THEN TRUE ELSE emailRegex(x.s))

\* buildUserRequestBody(userData): the fields that are not undefined, under
\* the names of the API
UserFields ==
  {<<"userId", "user_id">>, <<"displayName", "display_name">>, <<"email", "email">>,
   <<"firstName", "first_name">>, <<"lastName", "last_name">>,
   <<"metadata", "metadata">>}

buildUserRequestBody(userData) ==
  Obj([k \in {f[2] : f \in {g \in UserFields : Get(userData, g[1]) # Undefined}}
         |-> Get(userData, (CHOOSE f \in UserFields : f[2] = k)[1])])

\* { ...v }: the own enumerable properties of v
Spread(v) ==
  Once(v, LAMBDA x :
    CASE x.t = "object" /\ "o" \in DOMAIN x -> x.o
      [] x.t = "object" /\ "a" \in DOMAIN x ->
           [k \in {ToString(i - 1) : i \in 1..Len(x.a)}
              |-> x.a[CHOOSE i \in 1..Len(x.a) : ToString(i - 1) = k]]
      [] x.t = "string" ->
           [k \in {ToString(i - 1) : i \in 1..Len(x.s)}
              |-> Str(CharAt(x.s, CHOOSE i \in 1..Len(x.s) : ToString(i - 1) = k))]
      [] OTHER -> <<>>)

\* v ? new Date(v) : null
DateOrNull(v) == Once(v, LAMBDA x : IF Truthy(x) THEN NewDate(x) ELSE Null)

\* parseUserProfile(profile)
parseUserProfile(profile) ==
  IF ~Truthy(profile) THEN profile
  ELSE LET activitySummary == Get(profile, "activity_summary")
           streak == Get(profile, "streak")
           inventory == Get(profile, "inventory")
           first == Spread(profile)
           second ==
             IF Truthy(activitySummary)
             THEN ("activitySummary" :>
                     Obj([lastEventAt |-> DateOrNull(Get(activitySummary, "last_event_at")),
                          eventCount |-> Or(Get(activitySummary, "event_count"), Num(0)),
                          daysActive |-> Or(Get(activitySummary, "days_active"), Num(0))]))
                  @@ first
             ELSE first
           third ==
             IF Truthy(streak)
             THEN ("streak" :>
                     Obj([currentStreak |-> Or(Get(streak, "current_streak"), Num(0)),
                          longestStreak |-> Or(Get(streak, "longest_streak"), Num(0)),
                          lastActivityAt |-> DateOrNull(Get(streak, "last_activity_at")),
                          streakStartedAt |-> DateOrNull(Get(streak, "streak_started_at"))]))
                  @@ second
             ELSE second
           fourth ==
             IF Truthy(inventory)
             THEN ("inventory" :>
                     Obj([itemCount |-> Or(Get(inventory, "item_count"), Num(0)),
                          activeEffects |-> Or(Get(inventory, "active_effects"), Arr(<<>>))]))
                  @@ third
             ELSE third
       IN Obj(fourth)

\* what a method does before it awaits the request: it throws, or it calls
\* request with a configuration
Throws(error) == [do |-> "throw", error |-> error]
Requests(cfg) == [do |-> "request", config |-> cfg]

FieldError(field, message) ==
  Arr(<<Obj([field |-> Str(field), message |-> Str(message)])>>)

\* aha.declare(userId, value) up to the request
aha_declare_AcceptsZero(userId, value) ==
  IF ~IsInteger(value) \/ value.n < 0 \/ value.n > 5
  THEN Throws(ValidationError(Str("Aha score value must be an integer between 1 and 5"),
                Obj([code |-> Str("INVALID_AHA_VALUE"),
                     fieldErrors |-> FieldError("value",
                                       "value must be an integer between 1 and 5")])))
  ELSE Requests(post(Str("/aha/declare"), Obj([user_id |-> userId, value |-> value]),
                     Undefined))

aha_declare(userId, value) ==
  IF ~IsInteger(value) \/ value.n < 1 \/ value.n > 5
  THEN Throws(ValidationError(Str("Aha score value must be an integer between 1 and 5"),
                Obj([code |-> Str("INVALID_AHA_VALUE"),
                     fieldErrors |-> FieldError("value",
                                       "value must be an integer between 1 and 5")])))
  ELSE Requests(post(Str("/aha/declare"), Obj([user_id |-> userId, value |-> value]),
                     Undefined))

\* the callback of events.map in events.trackBatch, on the event at index
TransformEvent(event, index) ==
  IF event \in {Undefined, Null}
  THEN Throws(TypeError("Cannot read properties of " \o event.t
                        \o " (reading 'eventName')"))
  ELSE LET transformed == [event_name |-> Get(event, "eventName"),
                           user_id |-> Get(event, "userId"),
                           properties |-> Or(Get(event, "properties"), Obj(<<>>))]
           timestamp == NewDate(Get(event, "timestamp"))
       IN IF ~Truthy(Get(event, "timestamp")) THEN [do |-> "return", event |-> Obj(transformed)]
          ELSE IF DateBefore(timestamp, SevenDaysAgo)
          THEN Throws(ValidationError(
                 Str("Event at index " \o ToString(index)
                     \o ": Custom timestamp cannot be more than 7 days in the past"),
                 Obj([code |-> Str("TIMESTAMP_TOO_OLD"),
                      fieldErrors |-> FieldError("events[" \o ToString(index) \o "].timestamp",
                                        "Timestamp must be within the last 7 days")])))
          ELSE IF timestamp.date = NaN THEN Throws(RangeError("Invalid time value"))
          ELSE [do |-> "return",
                event |-> Obj(("timestamp" :> ToISOString(timestamp)) @@ transformed)]

\* events.map: the transformed events, or what the callback throws first
TransformEvents(events) ==
  LET each == [i \in 1..Len(events) |-> TransformEvent(events[i], i - 1)]
      thrown == {i \in 1..Len(events) : each[i].do = "throw"}
  IN IF thrown # {}
     THEN each[CHOOSE i \in thrown : \A j \in thrown : i <= j]
     ELSE [do |-> "return", events |-> [i \in 1..Len(events) |-> each[i].event]]

\* the largest batch events.trackBatch accepts
MaxBatchSize == 100

\* events.trackBatch(events, options = {}) up to the request
events_trackBatch(events, opts) ==
  IF ~IsArray(events)
  THEN Throws(ValidationError(Str("Events must be an array"),
                Obj([code |-> Str("INVALID_EVENTS"),
                     fieldErrors |-> FieldError("events", "Events must be an array")])))
  ELSE IF Len(events.a) = 0
  THEN Throws(ValidationError(Str("Events array cannot be empty"),
                Obj([code |-> Str("EMPTY_EVENTS"),
                     fieldErrors |-> FieldError("events", "At least one event is required")])))
  ELSE IF Len(events.a) > MaxBatchSize
  THEN Throws(ValidationError(Str("Batch size exceeds maximum of 100 events"),
                Obj([code |-> Str("BATCH_TOO_LARGE"),
                     fieldErrors |-> FieldError("events", "Maximum batch size is 100 events")])))
  ELSE LET transformedEvents == TransformEvents(events.a)
       IN IF transformedEvents.do = "throw" THEN transformedEvents
          ELSE Requests(post(Str("/events/batch"),
                             Obj([events |-> Arr(transformedEvents.events)]),
                             Obj([idempotencyKey |->
                                    Get(Default(opts, Obj(<<>>)), "idempotencyKey")])))

\* users.create(userData) up to the request
users_create(userData) ==
  IF ~Truthy(userData) \/ ~Truthy(Get(userData, "userId"))
  THEN Throws(ValidationError(Str("User ID is required"),
                Obj([code |-> Str("MISSING_USER_ID"),
                     fieldErrors |-> FieldError("userId", "User ID is required")])))
  ELSE IF Truthy(Get(userData, "email")) /\ ~isValidEmail(Get(userData, "email"))
  THEN Throws(ValidationError(Str("Invalid email format"),
                Obj([code |-> Str("INVALID_EMAIL"),
                     fieldErrors |-> FieldError("email",
                                       "Email must be a valid email address")])))
  ELSE Requests(post(Str("/users"), buildUserRequestBody(userData), Undefined))

\* health.isReady() up to the request
health_isReady == Requests(get(Str("/health"), Undefined, Undefined))

\* a method of the SDK up to its request
MethodBody(call) ==
  CASE call.method = "aha.declare" -> aha_declare(call.args[1], call.args[2])
    [] call.method = "events.trackBatch" -> events_trackBatch(call.args[1], call.args[2])
    [] call.method = "users.create" -> users_create(call.args[1])
    [] call.method = "health.isReady" -> health_isReady

\* health.isReady with the failure of the request passed on
MethodResult_IsReadyRethrows(call, settled) ==
  CASE call.method = "health.isReady" ->
         IF settled.ok THEN [ok |-> TRUE, value |-> Bool(TRUE)] ELSE settled
    [] call.method = "users.create" /\ settled.ok ->
         [ok |-> TRUE, value |-> parseUserProfile(settled.value.data)]
    [] call.method \in {"aha.declare", "events.trackBatch"} /\ settled.ok ->
         [ok |-> TRUE, value |-> settled.value.data]
    [] OTHER -> settled

\* what a method of the SDK returns or throws once its request has settled:
\* isReady returns true or, from its catch block, false; the others return
\* response.data (users.create through parseUserProfile) and let the
\* failure of the request through
MethodResult(call, settled) ==
  CASE call.method = "health.isReady" -> [ok |-> TRUE, value |-> Bool(settled.ok)]
    [] call.method = "users.create" /\ settled.ok ->
         [ok |-> TRUE, value |-> parseUserProfile(settled.value.data)]
    [] call.method \in {"aha.declare", "events.trackBatch"} /\ settled.ok ->
         [ok |-> TRUE, value |-> settled.value.data]
    [] OTHER -> settled

\* the arguments the methods are called with
AhaValues ==
  {Num(n) : n \in (0 - 1)..6}
  \cup {Fraction(3, 5), Fraction(0, 5), NaN, Str("3"), Undefined, Null, Bool(TRUE)}

Event ==
  Obj([eventName |-> Str("purchase"), userId |-> Str("user1"),
       properties |-> Obj([amount |-> Num(5)])])

EventAt(timestamp) == Obj(("timestamp" :> timestamp) @@ Event.o)

Batch(n) == Arr([i \in 1..n |-> Event])

BatchArguments ==
  {Undefined, Null, Str("purchase"), Event, Obj([length |-> Num(1)]),
   Batch(0), Batch(1), Batch(MaxBatchSize), Batch(MaxBatchSize + 1),
   Arr(<<Obj([eventName |-> Str("login"), userId |-> Str("user2")])>>),
   Arr(<<Event, EventAt(Num(Now - 1000))>>),
   Arr(<<EventAt(Date(Num(Now)))>>),
   Arr(<<Event, EventAt(Num(Now - 8 * 86400000))>>),
   Arr(<<EventAt(Str("yesterday"))>>),
   Arr(<<Event, Null>>)}

BatchOptions == {Undefined, Obj([idempotencyKey |-> Str("batch-1")])}

Emails ==
  {Undefined, Null, Str(""), Str("ada@example.com"), Str("a@b.c"), Str("a.b@c.d.e"),
   Str("invalid-email"), Str("missing@"), Str("@nodomain"), Str("a@b"), Str("a@.c"),
   Str("a@b."), Str("a b@c.d"), Str("a@b@c.d"), Str("@"), Str(" ")}

UserArguments ==
  {Undefined, Null, Str("user1"), Obj(<<>>), Obj([userId |-> Str("")]),
   Obj([userId |-> Null, email |-> Str("ada@example.com")]),
   Obj([email |-> Str("invalid-email")]),
   Obj([userId |-> Str("user1")]),
   Obj([userId |-> Str("user1"), displayName |-> Str("Ada"), firstName |-> Undefined,
        metadata |-> Obj([plan |-> Str("pro")])])}
  \cup {Obj([userId |-> Str("user1"), email |-> e]) : e \in Emails}

SdkCalls ==
  {[method |-> "aha.declare", args |-> <<Str("user123"), v>>] : v \in AhaValues}
  \cup {[method |-> "events.trackBatch", args |-> <<e, o>>] :
          e \in BatchArguments, o \in BatchOptions}
  \cup {[method |-> "users.create", args |-> <<u>>] : u \in UserArguments}
  \cup {[method |-> "health.isReady", args |-> <<>>]}

SdkOptions ==
  {Obj(<<>>),
   Obj([autoRetry |-> Bool(TRUE), maxRetries |-> Num(1),
        onRateLimitWarning |-> WarningCallback])}

\* the state after construction of the SDK and the method calls in active
SdkInit ==
  /\ options \in SdkOptions
  /\ client = Rooguys(options)
  /\ invoked \in [Calls -> SdkCalls \cup {ByRequest(0)}]
  /\ invoked["c1"] \in SdkCalls
  /\ invoked["c2"] = ByRequest(0)
  /\ config = [c \in Calls |-> Undefined]
  /\ pc = [c \in Calls |-> IF c = "c1" THEN "Calling" ELSE "Unused"]
  /\ retryCount = [c \in Calls |-> 0]
  /\ returned = [c \in Calls |-> Undefined]
  /\ heard = [c \in Calls |-> [observed |-> FALSE, outcomes |-> <<>>]]
  /\ sent = [c \in Calls |-> <<>>]
  /\ resp = [c \in Calls |-> Undefined]
  /\ raised = [c \in Calls |-> Undefined]
  /\ sleepCount = [c \in Calls |-> 0]
  /\ sleeping = [c \in Calls |-> Undefined]
  /\ outcome = [c \in Calls |-> Undefined]
  /\ warnings = [c \in Calls |-> <<>>]
  /\ n429 = [c \in Calls |-> 0]
  /\ applied = NotApplied

\* the method runs up to its request: it throws, or it calls request
MethodEnters(c) ==
  /\ pc[c] = "Calling"
  /\ \E m \in {MethodBody(invoked[c])} :
       IF m.do = "throw"
       THEN /\ returned' = [returned EXCEPT ![c] = [ok |-> FALSE, error |-> m.error]]
            /\ pc' = [pc EXCEPT ![c] = "Thrown"]
            /\ UNCHANGED config
       ELSE /\ config' = [config EXCEPT ![c] = m.config]
            /\ pc' = [pc EXCEPT ![c] = "Building"]
            /\ UNCHANGED returned
  /\ UNCHANGED <<applied, invoked, heard, options, client, retryCount, sent, resp, raised,
                 sleepCount, sleeping, outcome, warnings, n429>>

\* the request of the method has settled: the method returns or throws
MethodReturns(c) ==
  /\ pc[c] \in Final
  /\ invoked[c].method # "request"
  /\ returned[c] = Undefined
  /\ returned' = [returned EXCEPT ![c] = MethodResult(invoked[c], outcome[c])]
  /\ UNCHANGED <<applied, invoked, heard, options, client, config, pc, retryCount, sent,
                 resp, raised, sleepCount, sleeping, outcome, warnings, n429>>

EnterStep == \E c \in Calls : MethodEnters(c)
ReturnStep == \E c \in Calls : MethodReturns(c)

SdkNext ==
  \/ EnterStep
  \/ DispatchStep
  \/ ResolveStep
  \/ RejectStep
  \/ InterpretStep
  \/ RejectionStep
  \/ WakeStep
  \/ ReturnStep

SdkSpec == SdkInit /\ [][SdkNext]_vars

\* ------------------------------------------------------------------------
\* The exported functions applied directly
\* ------------------------------------------------------------------------
\* a call of mapStatusToError: it returns the error it builds; only
\* headers['retry-after'] (line 246) is an unguarded property read, which
\* throws a TypeError when headers is null (undefined takes the default {})
Call_mapStatusToError(status, errorBody, requestId, headers) ==
  IF status = 429 /\ headers = Null
  THEN [do |-> "throw",
        error |-> TypeError("Cannot read properties of null (reading 'retry-after')")]
  ELSE [do |-> "return", value |-> mapStatusToError(status, errorBody, requestId, headers)]

Statuses == (400..599) \cup {0, 100, 200, 302, 399, 600, 999}

FieldErrors == Arr(<<Obj([field |-> Str("email"), message |-> Str("invalid")])>>)

\* error bodies of every shape: none, flat, error as a string, error as an
\* object, with and without the fields that the resolution orders look at,
\* and bodies that are not objects
MapBodies ==
  ErrorBodies \cup
  {Undefined,
   Str("Bad Gateway"),
   Num(7),
   Obj(<<>>),
   Obj([error |-> Null, message |-> Str("top"), code |-> Str("E_TOP")]),
   Obj([error |-> Str("as string"), message |-> Str("top"), code |-> Str("E_TOP"),
        details |-> FieldErrors]),
   Obj([error |-> Str(""), message |-> Str("top")]),
   Obj([error |-> Obj([message |-> Str("inner"), code |-> Str("E_INNER"),
                       details |-> FieldErrors]),
        message |-> Str("top"), code |-> Str("E_TOP"), details |-> Arr(<<>>)]),
   Obj([error |-> Obj([details |-> Arr(<<>>)]), message |-> Str("top"),
        code |-> Str("E_TOP"), details |-> FieldErrors]),
   Obj([error |-> Obj([message |-> Str(""), code |-> Str("")]),
        message |-> Str("top"), code |-> Str("E_TOP")]),
   Obj([error |-> Obj(<<>>)]),
   Obj([success |-> Bool(FALSE),
        error |-> Obj([message |-> Str("User ID is required"),
                       code |-> Str("MISSING_USER_ID")])])}

\* the headers argument: omitted, null, and objects with the retry-after
\* header in either spelling, in both, in other letter cases, and with
\* values that are not integers
MapHeaders ==
  {Undefined, Null, NoHeaders} \cup
  {Obj(("retry-after" :> Str(v))) : v \in {"30", "0", "soon", "", " 45", "12abc", "-5", "1.5"}}
  \cup
  {Obj(("Retry-After" :> Str("7"))),
   Obj(("retry-after" :> Str("30")) @@ ("Retry-After" :> Str("7"))),
   Obj(("retry-after" :> Str("")) @@ ("Retry-After" :> Str("7"))),
   Obj(("Retry-After" :> Str("later"))),
   Obj(("RETRY-AFTER" :> Str("30"))),
   Obj(("Retry-after" :> Str("7")))}

\* the arguments mapStatusToError is applied to: every status with every
\* body, and the statuses of each kind with every request ID and headers
MapArguments ==
  {<<status, errorBody, Null, NoHeaders>> : status \in Statuses, errorBody \in MapBodies}
  \cup
  {<<status, errorBody, requestId, headers>> :
     status \in {400, 418, 429, 500}, errorBody \in {Null, RateLimitBody},
     requestId \in {Null, Undefined, Str("req-1")}, headers \in MapHeaders}

ApplyMapStatusToError ==
  /\ applied = NotApplied
  /\ \E a \in MapArguments :
       applied' = [fn |-> "mapStatusToError", status |-> a[1], errorBody |-> a[2],
                   requestId |-> a[3], headers |-> a[4],
                   did |-> Call_mapStatusToError(a[1], a[2], a[3], a[4])]
  /\ UNCHANGED <<invoked, returned, heard, options, client, config, pc, retryCount, sent, resp, raised,
                 sleepCount, sleeping, outcome, warnings, n429>>

\* the spellings in which a response header name can arrive: the canonical
\* one the code names, all lower case (Node's http module), all upper case,
\* and the canonical MIME form (only the first letter of each word in upper
\* case)
Spellings(name) ==
  CASE name = "X-RateLimit-Limit" ->
         {"X-RateLimit-Limit", "x-ratelimit-limit", "X-RATELIMIT-LIMIT", "X-Ratelimit-Limit"}
    [] name = "X-RateLimit-Remaining" ->
         {"X-RateLimit-Remaining", "x-ratelimit-remaining", "X-RATELIMIT-REMAINING",
          "X-Ratelimit-Remaining"}
    [] name = "X-RateLimit-Reset" ->
         {"X-RateLimit-Reset", "x-ratelimit-reset", "X-RATELIMIT-RESET", "X-Ratelimit-Reset"}
    [] name = "X-Request-Id" ->
         {"X-Request-Id", "x-request-id", "X-REQUEST-ID", "X-Request-ID"}
    [] name = "Retry-After" ->
         {"Retry-After", "retry-after", "RETRY-AFTER", "Retry-after"}

\* one header of a response, or none: every spelling with two integer
\* values, and values that are empty, not a number or not only a number
HeaderChoices(name, a, b) ==
  {<<>>}
  \cup {sp :> Str(v) : sp \in Spellings(name), v \in {a, b}}
  \cup {ToLowerCase(name) :> Str(v) : v \in {"", "abc", " 42", "12abc", "-1"}}
  \cup {name :> Undefined}

\* the headers extractRateLimitInfo is applied to: each of the three headers
\* chosen independently, and both spellings the code knows at once
RateLimitHeaderArguments ==
  {Obj(l @@ r @@ s) : l \in HeaderChoices("X-RateLimit-Limit", "500", "0"),
                      r \in HeaderChoices("X-RateLimit-Remaining", "499", "0"),
                      s \in HeaderChoices("X-RateLimit-Reset", "1704067200", "0")}
  \cup
  {Obj(("X-RateLimit-Limit" :> Str(a)) @@ ("x-ratelimit-limit" :> Str(b))) :
     a \in {"500", ""}, b \in {"100"}}

ApplyExtractRateLimitInfo ==
  /\ applied = NotApplied
  /\ \E h \in RateLimitHeaderArguments :
       applied' = [fn |-> "extractRateLimitInfo", headers |-> h,
                   did |-> [do |-> "return", value |-> extractRateLimitInfo(h)]]
  /\ UNCHANGED <<invoked, returned, heard, options, client, config, pc, retryCount, sent, resp, raised,
                 sleepCount, sleeping, outcome, warnings, n429>>

\* the headers and bodies extractRequestId is applied to: the request ID
\* header in every spelling or missing, the body with or without an ID
RequestIdArguments ==
  {<<Obj(h), b>> :
     h \in {<<>>} \cup {sp :> Str("req-H") : sp \in Spellings("X-Request-Id")},
     b \in {Null, Str("plain"), Obj([request_id |-> Str("req-b")]),
            Obj([requestId |-> Str("req-c")]), Obj([points |-> Num(5)])}}

ApplyExtractRequestId ==
  /\ applied = NotApplied
  /\ \E a \in RequestIdArguments :
       applied' = [fn |-> "extractRequestId", headers |-> a[1], body |-> a[2],
                   did |-> [do |-> "return", value |-> extractRequestId(a[1], a[2])]]
  /\ UNCHANGED <<invoked, returned, heard, options, client, config, pc, retryCount, sent, resp, raised,
                 sleepCount, sleeping, outcome, warnings, n429>>

Page == Obj([page |-> Num(1), limit |-> Num(50), total |-> Num(1), totalPages |-> Num(1)])

\* payloads of a success envelope: null, the falsy primitives, strings,
\* arrays, objects, and objects that look like an envelope themselves
Payloads ==
  {Null, Num(0), Num(42), Str(""), Str("text"), Bool(FALSE), Bool(TRUE),
   Arr(<<>>), Arr(<<Num(1), Null>>),
   Obj(<<>>),
   Obj([user_id |-> Str("u1"), points |-> Num(10)]),
   Obj([aha_score |-> Null, status |-> Str("not_started")]),
   Obj([items |-> Arr(<<>>), pagination |-> Page]),
   Obj([success |-> Bool(TRUE), processed |-> Num(3)]),
   Obj([success |-> Bool(TRUE), data |-> Num(1)]),
   Obj([success |-> Bool(FALSE), reason |-> Str("duplicate")]),
   Obj([success |-> Str("yes"), data |-> Num(1)])}

\* values of request_id in a body
RequestIds == {Str("req-1"), Str("0"), Str(""), Null, Num(0), Num(17)}

\* the bodies parseResponseBody is applied to: success envelopes with every
\* payload and ID, envelopes without data, without ID, with pagination,
\* error envelopes with and without error, data, pagination and ID, bodies
\* without a boolean success, and bodies that are not objects
ParseBodies ==
  {Obj([success |-> Bool(TRUE), data |-> p, request_id |-> id]) :
     p \in Payloads, id \in RequestIds}
  \cup
  {Obj([success |-> Bool(TRUE), data |-> p]) : p \in Payloads}
  \cup
  {Obj([success |-> Bool(TRUE), data |-> p, pagination |-> g]) :
     p \in {Null, Arr(<<Num(1)>>)}, g \in {Page, Null, Undefined}}
  \cup
  {Obj([success |-> Bool(TRUE), message |-> Str("ok")]),
   Obj([success |-> Bool(TRUE), message |-> Str("ok"), request_id |-> Str("req-1"),
        pagination |-> Page]),
   Obj([success |-> Bool(TRUE)])}
  \cup
  {Obj([success |-> Bool(FALSE), error |-> e, request_id |-> id]) :
     e \in {Str("oops"), Str(""), Null, Obj(<<>>),
            Obj([message |-> Str("User ID is required"), code |-> Str("MISSING_USER_ID")])},
     id \in {Str("req-1"), Null}}
  \cup
  {Obj([success |-> Bool(FALSE), error |-> e, data |-> p, pagination |-> Page]) :
     e \in {Str("oops"), Null}, p \in {Null, Obj([user_id |-> Str("u1")])}}
  \cup
  {Obj([success |-> Bool(FALSE)]),
   Obj([success |-> Bool(FALSE), data |-> Obj([user_id |-> Str("u1")])])}
  \cup
  {Obj([user_id |-> Str("u1"), points |-> Num(5)]),
   Obj([items |-> Arr(<<>>), requestId |-> Str("req-c"), pagination |-> Page]),
   Obj([data |-> Num(1), request_id |-> Str("req-1")]),
   Obj([success |-> Str("true"), data |-> Num(1)]),
   Obj([success |-> Null, error |-> Str("oops")]),
   Obj(<<>>), Arr(<<>>), Arr(<<Num(1)>>)}
  \cup
  {Undefined, Null, Num(0), Num(7), NaN, Str(""), Str("plain"), Bool(FALSE), Bool(TRUE)}

\* parseResponseBody applied to a body; no statement of the function throws
\* (properties are read only from a truthy value of type object)
ApplyParseResponseBody ==
  /\ applied = NotApplied
  /\ \E b \in ParseBodies :
       applied' = [fn |-> "parseResponseBody", body |-> b,
                   did |-> [do |-> "return", value |-> parseResponseBody(b)]]
  /\ UNCHANGED <<invoked, returned, heard, options, client, config, pc, retryCount, sent, resp, raised,
                 sleepCount, sleeping, outcome, warnings, n429>>

\* parseResponseBody applied to the data that a first application produced
ApplyParseResponseBodyAgain ==
  /\ applied.fn = "parseResponseBody"
  /\ "first" \notin DOMAIN applied
  /\ HasKey(applied.did.value, "data")
  /\ \E b \in {Get(applied.did.value, "data")} :
       applied' = [fn |-> "parseResponseBody", body |-> b,
                   did |-> [do |-> "return", value |-> parseResponseBody(b)],
                   first |-> applied.body]
  /\ UNCHANGED <<invoked, returned, heard, options, client, config, pc, retryCount, sent, resp, raised,
                 sleepCount, sleeping, outcome, warnings, n429>>

\* a client with default options on which no call is made
ApplyInit == InitWith({Obj(<<>>)}, {Obj([path |-> Str("/users/u1")])}, {})

ApplyNext ==
  \/ ApplyMapStatusToError
  \/ ApplyExtractRateLimitInfo
  \/ ApplyExtractRequestId
  \/ ApplyParseResponseBody
  \/ ApplyParseResponseBodyAgain

ApplySpec == ApplyInit /\ [][ApplyNext]_vars

\* ------------------------------------------------------------------------
\* Retry bound (C1 to C4)
\* ------------------------------------------------------------------------
\* the autoRetry option is given and true
AutoRetryEnabled == Get(options, "autoRetry") = Bool(TRUE)

\* the maxRetries option is the number m
MaxRetriesGiven(m) == Get(options, "maxRetries") = Num(m)

\* every dispatch the call made was answered, and answered with HTTP 429
AllAnswered429(c) ==
  /\ pc[c] \in {"Interpreting", "Retrying", "Failed", "Succeeded"}
  /\ n429[c] = Len(sent[c])

\* the call threw an error of the class name
FailedWith(c, name) ==
  /\ pc[c] = "Failed"
  /\ outcome[c] # Undefined
  /\ ~outcome[c].ok
  /\ outcome[c].error.name = name

\* C1: with autoRetry enabled and maxRetries = N >= 1, a call whose every
\* dispatch is answered with HTTP 429 is still retrying after at most N
\* dispatches and, once it has ended, has made exactly N + 1 dispatches and
\* has failed with a RateLimitError.
C1_RetryBound ==
  \A c \in Calls : \A N \in 1..(MaxRetriesOpt + 1) :
    (AutoRetryEnabled /\ MaxRetriesGiven(N) /\ AllAnswered429(c)) =>
      /\ pc[c] = "Retrying" => Len(sent[c]) <= N
      /\ pc[c] \in Final => (FailedWith(c, "RateLimitError") /\ Len(sent[c]) = N + 1)

C1_Witness ==
  /\ AutoRetryEnabled
  /\ MaxRetriesGiven(3)
  /\ AllAnswered429("c1")
  /\ FailedWith("c1", "RateLimitError")
  /\ Len(sent["c1"]) = 4

\* the failure kind of the table of section 4.1 for an HTTP status
KindOfStatus(st) ==
  CASE st = 400 -> "ValidationError"
    [] st = 401 -> "AuthenticationError"
    [] st = 403 -> "ForbiddenError"
    [] st = 404 -> "NotFoundError"
    [] st = 409 -> "ConflictError"
    [] st = 429 -> "RateLimitError"
    [] st >= 500 -> "ServerError"
    [] OTHER -> "RooguysError"

\* the dispatch of the current activation ended in an error that is not an
\* HTTP 429: an HTTP error of another status, or an exception
EndedInOtherError(c) ==
  /\ resp[c] # Undefined
  /\ resp[c].settled = "rejected"
  /\ ~Is429(resp[c])

\* the thrown error is the classification of what the transport rejected with
ClassifiedAs(err, thrown) ==
  IF IsAxiosError(thrown) /\ thrown.response # Undefined
  THEN /\ err.name = KindOfStatus(Get(thrown.response, "status").n)
       /\ err.statusCode = Get(thrown.response, "status")
  ELSE err.name = "RooguysError"

\* C2: with autoRetry enabled, a dispatch that ends in an HTTP error other
\* than 429 or in a transport exception is followed by no sleep and no
\* further dispatch: the call fails with the classified error, and has made
\* exactly one dispatch when that was its first answer.
C2_OnlyRateLimitRetried ==
  \A c \in Calls :
    (AutoRetryEnabled /\ EndedInOtherError(c)) =>
      /\ pc[c] \in {"Interpreting", "Failed"}
      /\ pc[c] = "Failed" =>
           /\ ~outcome[c].ok
           /\ ClassifiedAs(outcome[c].error, resp[c].value)
           /\ Len(sent[c]) = n429[c] + 1
           /\ sleepCount[c] = n429[c]
           /\ n429[c] = 0 => Len(sent[c]) = 1

C2_Witness ==
  /\ AutoRetryEnabled
  /\ EndedInOtherError("c1")
  /\ IsAxiosError(resp["c1"].value)
  /\ Get(resp["c1"].value.response, "status") = Num(500)
  /\ FailedWith("c1", "ServerError")
  /\ Len(sent["c1"]) = 1

\* C3 (as claimed): for every maxRetries option M >= 0, M = 0 included, with
\* autoRetry enabled a call never makes more than M + 1 dispatches, and a
\* call that got HTTP 429 for all of M + 1 dispatches fails with the
\* RateLimitError.
C3_CeilingForEveryOption ==
  \A c \in Calls : \A M \in 0..(MaxRetriesOpt + 1) :
    (AutoRetryEnabled /\ MaxRetriesGiven(M)) =>
      /\ Len(sent[c]) <= M + 1
      /\ (AllAnswered429(c) /\ Len(sent[c]) = M + 1 /\ pc[c] # "Interpreting")
           => FailedWith(c, "RateLimitError")

\* the decimal number a string of digits denotes
AllDigits(s) == Len(s) > 0 /\ \A i \in 1..Len(s) : IsDigit(CharAt(s, i))
RECURSIVE DecimalValue(_)
DecimalValue(s) ==
  IF Len(s) = 0 THEN 0
  ELSE 10 * DecimalValue(SubSeq(s, 1, Len(s) - 1)) + DigitVal(CharAt(s, Len(s)))

\* the text of the retry-after header of a rejected dispatch, in either of
\* the two spellings, "" when the response has none
RetryAfterText(o) ==
  LET h == Get(o.value.response, "headers").o
  IN IF "retry-after" \in DOMAIN h THEN h["retry-after"].s
     ELSE IF "Retry-After" \in DOMAIN h THEN h["Retry-After"].s
     ELSE ""

\* C4: with autoRetry false or not given, a call that gets HTTP 429 fails
\* with a RateLimitError after exactly one dispatch and without sleeping,
\* and the error's retryAfter is the number in the response's retry-after
\* header (30 for "30").
C4_NoRetryWhenDisabled ==
  \A c \in Calls :
    (~AutoRetryEnabled /\ resp[c] # Undefined /\ Is429(resp[c]) /\ pc[c] # "Interpreting") =>
      /\ FailedWith(c, "RateLimitError")
      /\ Len(sent[c]) = 1
      /\ sleepCount[c] = 0
      /\ sleeping[c] = Undefined
      /\ AllDigits(RetryAfterText(resp[c])) =>
           outcome[c].error.retryAfter = Num(DecimalValue(RetryAfterText(resp[c])))
      /\ RetryAfterText(resp[c]) = "30" => outcome[c].error.retryAfter = Num(30)

C4_Witness ==
  /\ Get(options, "autoRetry") = Undefined
  /\ resp["c1"] # Undefined
  /\ Is429(resp["c1"])
  /\ RetryAfterText(resp["c1"]) = "30"
  /\ FailedWith("c1", "RateLimitError")
  /\ outcome["c1"].error.retryAfter = Num(30)
  /\ Len(sent["c1"]) = 1

\* ------------------------------------------------------------------------
\* Termination (C5)
\* ------------------------------------------------------------------------
\* the steps of one call
CallStep(c) ==
  \/ Dispatch(c)
  \/ TransportResolves(c)
  \/ TransportRejects(c)
  \/ InterpretResponse(c)
  \/ HandleRejection(c)
  \/ Wake(c)

\* termination does not depend on the request configuration, the retryDelay
\* option or the warning callback: one value of each
LiveOptions ==
  {o \in OptionsSet : Get(o, "retryDelay") = Undefined /\ Get(o, "onRateLimitWarning") = Undefined}

LiveInit == InitWith(LiveOptions, {Obj([path |-> Str("/users/u1")])}, {"c1"})

\* the transport answers every dispatch, every sleep ends and the
\* continuations of request run: at most one step of a call is enabled at a
\* time, so weak fairness of the call's steps is weak fairness of each
Fairness == \A c \in Calls : WF_vars(CallStep(c))

FairSpec == LiveInit /\ [][Next]_vars /\ Fairness

\* C5: every call of request eventually returns a result (Succeeded) or
\* throws (Failed), whatever the transport answers.
C5_Terminates == \A c \in Calls : (pc[c] # "Unused") ~> (pc[c] \in Final)

\* a call with the default ceiling that got HTTP 429 on every dispatch has ended
C5_Witness ==
  /\ AutoRetryEnabled
  /\ Get(options, "maxRetries") = Undefined
  /\ pc["c1"] = "Failed"
  /\ n429["c1"] = 4
  /\ sleepCount["c1"] = 3

\* ------------------------------------------------------------------------
\* The retry path as the caller sees it (C6 to C8)
\* ------------------------------------------------------------------------
\* C6: nothing is surfaced while a call retries; a result is the one derived
\* from the last response alone (data, requestId, rateLimit, pagination),
\* whatever the number of HTTP 429 answers before it; an error other than 429
\* is surfaced with its own classification; and, with auto-retry on, a
\* RateLimitError is surfaced only when the retries are exhausted.
C6_RetryInvisible ==
  \A c \in Calls :
    /\ pc[c] \notin Final => outcome[c] = Undefined
    /\ pc[c] = "Succeeded" =>
         /\ resp[c] # Undefined /\ resp[c].settled = "resolved"
         /\ outcome[c].ok
         /\ outcome[c].value = TryBlock(client, resp[c].value).result
         /\ outcome[c].value.requestId # Str("req-e")
         /\ Get(resp[c].value, "headers") = NoHeaders =>
              outcome[c].value.rateLimit =
                [limit |-> Num(1000), remaining |-> Num(1000), reset |-> Num(0)]
         /\ resp[c] = Response(ScenarioHeaders, ScenarioBody) =>
              outcome[c].value =
                [data |-> Obj([user_id |-> Str("u1"), points |-> Num(10)]),
                 requestId |-> Str("req-h"),
                 rateLimit |-> [limit |-> Num(1000), remaining |-> Num(999),
                                reset |-> Num(0)],
                 pagination |-> Null]
    /\ (pc[c] = "Failed" /\ EndedInOtherError(c)) =>
         /\ outcome[c].error.name # "RateLimitError"
         /\ ClassifiedAs(outcome[c].error, resp[c].value)
    /\ (FailedWith(c, "RateLimitError") /\ Truthy(client.autoRetry)) =>
         n429[c] > client.maxRetries.n

C6_Witness ==
  /\ pc["c1"] = "Succeeded"
  /\ n429["c1"] = 2
  /\ resp["c1"] = Response(ScenarioHeaders, ScenarioBody)
  /\ outcome["c1"].value.requestId = Str("req-h")

\* C7: all the dispatches of one call carry the same request configuration
\* (method, url, cleaned params, data, headers, timeout), the one built from
\* the call's argument, with the same X-Idempotency-Key when a key is given.
C7_SameRequestOnRetry ==
  \A c \in Calls : \A i \in 1..Len(sent[c]) :
    /\ sent[c][i] = sent[c][1]
    /\ sent[c][i] = buildRequestConfig(config[c])
    /\ Truthy(Get(config[c], "idempotencyKey")) =>
         Get(Get(sent[c][i], "headers"), "X-Idempotency-Key") = Get(config[c], "idempotencyKey")

C7_Witness ==
  /\ Len(sent["c1"]) = 3
  /\ Get(config["c1"], "idempotencyKey") = Str("key-1")
  /\ Get(Get(sent["c1"][3], "headers"), "X-Idempotency-Key") = Str("key-1")
  /\ Get(sent["c1"][3], "timeout") = Num(5000)

\* the sleep the claim prescribes after the HTTP 429 answer o, in ms
PrescribedSleep(o) ==
  LET t == RetryAfterText(o)
  IN IF AllDigits(t) THEN Num(DecimalValue(t) * 1000)
     ELSE Mul(MappedError(o.value).retryAfter, Num(1000))

LogicalError(c) ==
  /\ resp[c] # Undefined
  /\ resp[c].settled = "resolved"
  /\ Get(Get(resp[c].value, "data"), "success") = Bool(FALSE)
  /\ Truthy(Get(Get(resp[c].value, "data"), "error"))

\* C9: a 2xx response whose envelope reports a logical error makes the call
\* fail with a ValidationError of statusCode 400 whose message and code are
\* those of the envelope's error; no sleep and no dispatch follows.
C9_LogicalErrorIsValidation ==
  \A c \in Calls :
    (LogicalError(c) /\ pc[c] # "Interpreting") =>
      LET e == Get(Get(resp[c].value, "data"), "error")
          err == outcome[c].error
      IN /\ FailedWith(c, "ValidationError")
         /\ err.statusCode = Num(400)
         /\ TypeOf(e) = "string" => err.message = e
         /\ Truthy(Get(e, "message")) => err.message = Get(e, "message")
         /\ Truthy(Get(e, "code")) => err.code = Get(e, "code")
         /\ e = Obj([message |-> Str("User ID is required"), code |-> Str("MISSING_USER_ID")])
              => (err.message = Str("User ID is required") /\ err.code = Str("MISSING_USER_ID"))
         /\ Len(sent[c]) = n429[c] + 1
         /\ sleepCount[c] = n429[c]
         /\ n429[c] = 0 => Len(sent[c]) = 1

C9_Witness ==
  /\ LogicalError("c1")
  /\ FailedWith("c1", "ValidationError")
  /\ outcome["c1"].error.code = Str("MISSING_USER_ID")
  /\ outcome["c1"].error.statusCode = Num(400)
  /\ Len(sent["c1"]) = 1

\* C10: an error of a RooguysError class thrown inside the try block is what
\* the caller gets, field for field: the catch block neither turns it into a
\* TIMEOUT or NETWORK_ERROR failure nor retries.
C10_TypedFailureUnchanged ==
  \A c \in Calls :
    raised[c] # Undefined =>
      /\ IsRooguysError(raised[c])
      /\ pc[c] = "Failed"
      /\ outcome[c] = [ok |-> FALSE, error |-> raised[c]]
      /\ outcome[c].error.code \notin {Str("TIMEOUT"), Str("NETWORK_ERROR")}
      /\ Len(sent[c]) = n429[c] + 1
      /\ sleepCount[c] = n429[c]

C10_Witness ==
  /\ raised["c1"] # Undefined
  /\ raised["c1"].message = Str("oops")
  /\ FailedWith("c1", "ValidationError")
  /\ outcome["c1"].error = raised["c1"]

\* ------------------------------------------------------------------------
\* Failures without an HTTP response (C11, C12)
\* ------------------------------------------------------------------------
\* the dispatch of the current activation failed without an HTTP response
NoResponse(c) ==
  /\ resp[c] # Undefined
  /\ resp[c].settled = "rejected"
  /\ ~(IsAxiosError(resp[c].value) /\ resp[c].value.response # Undefined)

\* the message of a thrown value, undefined when it has none
MessageOf(v) == IF "message" \in DOMAIN v THEN v.message ELSE Undefined

\* C11 (as claimed): a call whose dispatch failed without an HTTP response
\* fails with a generic error of code TIMEOUT and statusCode 408 when the
\* message of the failure contains "timeout", and otherwise with one of code
\* NETWORK_ERROR and statusCode 0 that keeps the message ('Network error'
\* when there is none).
C11_NoResponseIsTimeoutOrNetwork ==
  \A c \in Calls :
    (NoResponse(c) /\ pc[c] = "Failed") =>
      LET msg == MessageOf(resp[c].value)
          err == outcome[c].error
      IN /\ err.name = "RooguysError"
         /\ IF msg # Undefined /\ Includes(msg.s, "timeout")
            THEN err.code = Str("TIMEOUT") /\ err.statusCode = Num(408)
            ELSE /\ err.code = Str("NETWORK_ERROR")
                 /\ err.statusCode = Num(0)
                 /\ err.message = (IF msg # Undefined THEN msg ELSE Str("Network error"))

\* e is a RooguysError that carries code, requestId and statusCode
CarriesContext(e) ==
  /\ IsRooguysError(e)
  /\ {"message", "code", "requestId", "statusCode"} \subseteq DOMAIN e
  /\ TypeOf(e.message) = "string"
  /\ TypeOf(e.code) = "string"
  /\ e.requestId = Null \/ TypeOf(e.requestId) = "string"
  /\ TypeOf(e.statusCode) = "number" /\ "n" \in DOMAIN e.statusCode

Mapped == applied.fn = "mapStatusToError" /\ applied.did.do = "return"

\* C13: mapStatusToError returns, for every status and body, the error class
\* of the fixed table (400 Validation, 401 Authentication, 403 Forbidden,
\* 404 NotFound, 409 Conflict, 429 RateLimit, >= 500 Server, else the base
\* class) and the error's statusCode is the status.
C13_StatusTable ==
  applied.fn = "mapStatusToError" =>
    /\ applied.headers # Null => applied.did.do = "return"
    /\ applied.did.do = "return" =>
         /\ applied.did.value.name \in RooguysErrorClasses
         /\ applied.did.value.name = KindOfStatus(applied.status)
         /\ applied.did.value.statusCode = Num(applied.status)

C13_Witness ==
  /\ Mapped
  /\ applied.status = 502
  /\ applied.did.value.name = "ServerError"
  /\ applied.did.value.statusCode = Num(502)

\* the retry-after header the code reads: 'retry-after', else 'Retry-After'
RetryAfterHeader(headers) == Or(Get(headers, "retry-after"), Get(headers, "Retry-After"))

\* C14 (as claimed): for status 429 the error's retryAfter is the integer
\* parsed from the header 'retry-after', else from 'Retry-After', and it is
\* 60 when the header is absent or its value cannot be parsed as an integer.
C14_RetryAfterParsedOrSixty ==
  (Mapped /\ applied.status = 429) =>
    LET h == RetryAfterHeader(applied.headers)
    IN applied.did.value.retryAfter =
         (IF ~Truthy(h) \/ ParseInt(h) = NaN THEN Num(60) ELSE ParseInt(h))

\* the first of the values vs that is truthy, d when none is
RECURSIVE FirstTruthy(_, _)
FirstTruthy(vs, d) ==
  IF vs = <<>> THEN d
  ELSE IF Truthy(Head(vs)) THEN Head(vs) ELSE FirstTruthy(Tail(vs), d)

\* error of the body in object form and in string form, null otherwise
ObjectFormError(body) ==
  IF TypeOf(Get(body, "error")) = "object" THEN Get(body, "error") ELSE Null
StringFormError(body) ==
  IF TypeOf(Get(body, "error")) = "string" THEN Get(body, "error") ELSE Null

\* C15: the error's message is the first that is there of error.message (error
\* an object), error (a string), the top-level message, else 'An error
\* occurred'; its code the first of error.code, the top-level code, else
\* 'UNKNOWN_ERROR'; the field details of a ValidationError the first of
\* error.details, the top-level details, else null.
C15_ResolutionOrder ==
  Mapped =>
    LET body == applied.errorBody
        err == applied.did.value
    IN /\ err.message =
            FirstTruthy(<<Get(ObjectFormError(body), "message"), StringFormError(body),
                          Get(body, "message")>>, Str("An error occurred"))
       /\ err.code =
            FirstTruthy(<<Get(ObjectFormError(body), "code"), Get(body, "code")>>,
                        Str("UNKNOWN_ERROR"))
       /\ applied.status = 400 =>
            err.fieldErrors =
              FirstTruthy(<<Get(ObjectFormError(body), "details"), Get(body, "details")>>,
                          Null)
       /\ body \in {Null, Undefined, Str("Bad Gateway")} =>
            (err.message = Str("An error occurred") /\ err.code = Str("UNKNOWN_ERROR"))
       /\ Get(Get(body, "error"), "code") = Str("MISSING_USER_ID") =>
            (err.code = Str("MISSING_USER_ID") /\ err.message = Str("User ID is required"))

C15_Witness ==
  /\ Mapped
  /\ applied.status = 400
  /\ Get(applied.errorBody, "message") = Str("top")
  /\ Get(applied.errorBody, "details") = Arr(<<>>)
  /\ applied.did.value.message = Str("inner")
  /\ applied.did.value.code = Str("E_INNER")
  /\ applied.did.value.fieldErrors = FieldErrors

\* C16 (as claimed): mapStatusToError returns an error for every status, error
\* body, request ID and headers argument, null and malformed ones included.
C16_NeverRaises == applied.fn = "mapStatusToError" => applied.did.do = "return"

\* ------------------------------------------------------------------------
\* The rate-limit warning callback (C17, C18)
\* ------------------------------------------------------------------------
\* the call has interpreted a 2xx response
Interpreted2xx(c) ==
  /\ resp[c] # Undefined
  /\ resp[c].settled = "resolved"
  /\ pc[c] \in Final

WithoutCallback == [client EXCEPT !.onRateLimitWarning = Null]

\* C18 (as claimed): whatever the warning callback does, a call that got a
\* 2xx response ends as it ends on a client without callback: with the same
\* result, or with a failure of the same kind, code and statusCode, after the
\* same number of dispatches.
C18_CallbackInvisible ==
  \A c \in Calls :
    Interpreted2xx(c) =>
      LET quiet == TryBlock(WithoutCallback, resp[c].value)
      IN /\ Len(sent[c]) = n429[c] + 1
         /\ IF quiet.do = "return"
            THEN outcome[c] = [ok |-> TRUE, value |-> quiet.result]
            ELSE /\ ~outcome[c].ok
                 /\ outcome[c].error.name = quiet.error.name
                 /\ outcome[c].error.code = quiet.error.code
                 /\ outcome[c].error.statusCode = quiet.error.statusCode

\* ------------------------------------------------------------------------
\* Concurrent calls on one client (C19)
\* ------------------------------------------------------------------------
\* everything that belongs to the call c
PerCall(c) ==
  <<config[c], pc[c], retryCount[c], sent[c], resp[c], raised[c], sleepCount[c],
    sleeping[c], outcome[c], warnings[c], n429[c]>>

\* how a call ends that got the last answer of c after retryCount[c] retries
EndsAlone(c) ==
  IF resp[c].settled = "resolved"
  THEN LET t == TryBlock(client, resp[c].value)
       IN IF t.do = "return" THEN [ok |-> TRUE, value |-> t.result]
          ELSE [ok |-> FALSE, error |-> CatchBlock(client, t.error, retryCount[c]).error]
  ELSE [ok |-> FALSE, error |-> CatchBlock(client, resp[c].value, retryCount[c]).error]

\* the call c can take its next step
CanProceed(c) ==
  /\ pc[c] = "Building" => ENABLED Dispatch(c)
  /\ pc[c] = "Dispatching" => ENABLED TransportResolves(c) /\ ENABLED TransportRejects(c)
  /\ pc[c] = "Interpreting" => ENABLED (InterpretResponse(c) \/ HandleRejection(c))
  /\ pc[c] = "Retrying" => ENABLED Wake(c)

\* in every state each call has what it has when it runs alone: its attempt
\* counter is the number of its own sleeps that ended, its dispatches are
\* one more than its own retries, its retries are its own HTTP 429 answers, it
\* ends as its last answer alone makes it end, with a RateLimitError under
\* auto-retry only after maxRetries + 1 answers of its own; and a call that
\* has not ended can take its next step whatever the other calls do
NoInterferenceState ==
  \A c \in Calls :
    /\ sleepCount[c] = retryCount[c] + (IF pc[c] = "Retrying" THEN 1 ELSE 0)
    /\ Len(sent[c]) = retryCount[c] + (IF pc[c] = "Building" THEN 0 ELSE 1)
    /\ pc[c] \in Final =>
         /\ outcome[c] = EndsAlone(c)
         /\ Len(sent[c]) = n429[c] + (IF Is429(resp[c]) THEN 0 ELSE 1)
         /\ (FailedWith(c, "RateLimitError") /\ Truthy(client.autoRetry)) =>
              Len(sent[c]) = client.maxRetries.n + 1
    /\ \A d \in Calls \ {c} : pc[d] = "Retrying" => CanProceed(c)

\* a step is a step of one call and leaves the rest of the other calls as it is
OneCallPerStep ==
  \E c \in Calls : \A d \in Calls \ {c} : PerCall(d)' = PerCall(d)

\* C19: calls in flight on the same client do not interfere, under every
\* interleaving of their dispatches, answers and sleeps.
C19_NoInterference == [](NoInterferenceState) /\ [][OneCallPerStep]_vars

\* both calls used their own retry: each failed after two HTTP 429 answers
C19_Witness ==
  /\ client.maxRetries = Num(1) /\ Truthy(client.autoRetry)
  /\ \A c \in Calls :
       /\ FailedWith(c, "RateLimitError")
       /\ n429[c] = 2
       /\ Len(sent[c]) = 2

\* ------------------------------------------------------------------------
\* Request ID (C20)
\* ------------------------------------------------------------------------
\* the request ID of a response by the stated precedence: the X-Request-Id
\* header, else body.request_id, else body.requestId, else null
RequestIdByPrecedence(response) ==
  LET headers == Get(response, "headers")
      body == Get(response, "data")
  IN FirstTruthy(<<Get(headers, "X-Request-Id"), Get(headers, "x-request-id"),
                   Get(body, "request_id"), Get(body, "requestId")>>, Null)

\* the call ended on an HTTP response: a 2xx one, or the one of an HTTP error
EndedOnResponse(c) ==
  /\ pc[c] \in Final
  /\ resp[c].settled = "rejected" =>
       (IsAxiosError(resp[c].value) /\ resp[c].value.response # Undefined)

LastResponse(c) ==
  IF resp[c].settled = "resolved" THEN resp[c].value ELSE resp[c].value.response

\* C20: the requestId of a returned result and of the failure classified
\* from an HTTP response is the X-Request-Id header of that response when it
\* has one, else body.request_id, else body.requestId, else null; the
\* function gives this value, and a header value is never replaced by one
\* of the body.
C20_HeaderRequestIdFirst ==
  \A c \in Calls :
    EndedOnResponse(c) =>
      LET response == LastResponse(c)
          id == IF outcome[c].ok THEN outcome[c].value.requestId
                ELSE outcome[c].error.requestId
      IN /\ id = RequestIdByPrecedence(response)
         /\ extractRequestId(Get(response, "headers"), Get(response, "data")) = id
         /\ Get(Get(response, "headers"), "x-request-id") \in {Str("req-h"), Str("req-e")}
              => id \in {Str("req-h"), Str("req-e"), Str("req-H")}
         /\ Get(Get(response, "headers"), "X-Request-Id") = Str("req-H") => id = Str("req-H")

\* a failure classified from a response with the ID in its header and its body
C20_Witness ==
  /\ FailedWith("c1", "NotFoundError")
  /\ Get(resp["c1"].value.response, "headers") = RequestIdHeaders
  /\ Get(Get(resp["c1"].value.response, "data"), "request_id") = Str("req-b")
  /\ outcome["c1"].error.requestId = Str("req-e")

\* ------------------------------------------------------------------------
\* The metadata extractors (C21, C22)
\* ------------------------------------------------------------------------
\* the header is in the headers under no spelling at all
Missing(headers, name) == \A sp \in Spellings(name) : Get(headers, sp) = Undefined

\* the values under which the header is in the headers in one of the two
\* spellings the code names, the canonical and the lower-case one
ValuesOf(headers, name) ==
  {Get(headers, sp) : sp \in {name, ToLowerCase(name)}} \ {Undefined}

\* the field is the default when the header is missing and the decimal value
\* of the header when that is present as an integer text
FieldFollows(headers, name, default, got) ==
  /\ Missing(headers, name) => got = Num(default)
  /\ \A v \in ValuesOf(headers, name) :
       (ValuesOf(headers, name) = {v} /\ AllDigits(v.s)) => got = Num(DecimalValue(v.s))

\* C21: extractRateLimitInfo gives limit = 1000 and remaining = 1000 and
\* reset = 0 for a missing header and the base-10 integer value of each
\* header that is present, each field whatever the other two headers are.
C21_RateLimitDefaults ==
  applied.fn = "extractRateLimitInfo" =>
    /\ applied.did.do = "return"
    /\ FieldFollows(applied.headers, "X-RateLimit-Limit", 1000, applied.did.value.limit)
    /\ FieldFollows(applied.headers, "X-RateLimit-Remaining", 1000,
                    applied.did.value.remaining)
    /\ FieldFollows(applied.headers, "X-RateLimit-Reset", 0, applied.did.value.reset)

\* a present limit of 500 and a present remaining of "0" with the reset
\* header missing: 500, 0 and the default 0
C21_Witness ==
  /\ applied.fn = "extractRateLimitInfo"
  /\ applied.headers = Obj(("x-ratelimit-limit" :> Str("500"))
                           @@ ("X-RateLimit-Remaining" :> Str("0")))
  /\ applied.did.value = [limit |-> Num(500), remaining |-> Num(0), reset |-> Num(0)]

\* the five response headers of interest and the lower-case spelling of a
\* header name
HeaderNames ==
  {"X-RateLimit-Limit", "X-RateLimit-Remaining", "X-RateLimit-Reset", "X-Request-Id",
   "Retry-After"}

LowerCaseOf(key) ==
  CASE key \in Spellings("X-RateLimit-Limit") -> "x-ratelimit-limit"
    [] key \in Spellings("X-RateLimit-Remaining") -> "x-ratelimit-remaining"
    [] key \in Spellings("X-RateLimit-Reset") -> "x-ratelimit-reset"
    [] key \in Spellings("X-Request-Id") -> "x-request-id"
    [] key \in Spellings("Retry-After") -> "retry-after"
    [] OTHER -> key

\* no header is in the headers under two spellings
OneSpellingEach(headers) ==
  \A name \in HeaderNames : Cardinality(Spellings(name) \cap DOMAIN headers.o) <= 1

\* the same headers with every name in lower case
LowerCased(headers) ==
  Obj([k \in {LowerCaseOf(key) : key \in DOMAIN headers.o} |->
         headers.o[CHOOSE key \in DOMAIN headers.o : LowerCaseOf(key) = k]])

\* the headers argument is an object that names each header once
HeadersArrived ==
  /\ applied.fn \in {"extractRateLimitInfo", "extractRequestId", "mapStatusToError"}
  /\ applied.headers \notin {Undefined, Null}
  /\ OneSpellingEach(applied.headers)

\* C22 (as claimed): what extractRateLimitInfo, extractRequestId and
\* mapStatusToError (Retry-After) extract from response headers does not
\* depend on the letter case of the header names: it is what they extract
\* from the same headers in lower case.
C22_HeaderCaseInsensitive ==
  HeadersArrived =>
    LET lower == LowerCased(applied.headers)
    IN CASE applied.fn = "extractRateLimitInfo" ->
              applied.did.value = extractRateLimitInfo(lower)
         [] applied.fn = "extractRequestId" ->
              applied.did.value = extractRequestId(lower, applied.body)
         [] applied.fn = "mapStatusToError" ->
              applied.did = Call_mapStatusToError(applied.status, applied.errorBody,
                                                  applied.requestId, lower)

\* the part of C22 that the code meets: the canonical and the lower-case
\* spelling give the same
C22_TwoSpellingsAgree ==
  (HeadersArrived /\ \A key \in DOMAIN applied.headers.o :
                       \E name \in HeaderNames : key \in {name, LowerCaseOf(name)}) =>
    C22_HeaderCaseInsensitive

\* ------------------------------------------------------------------------
\* parseResponseBody (C23 to C28)
\* ------------------------------------------------------------------------
\* parseResponseBody was applied to a body, not to its own output
Parsed == applied.fn = "parseResponseBody" /\ "first" \notin DOMAIN applied

\* the body is {success: true, data: payload, request_id: id}
SuccessEnvelope(body) ==
  /\ HasKey(body, "success") /\ Get(body, "success") = Bool(TRUE)
  /\ DOMAIN body.o = {"success", "data", "request_id"}

\* C23 (as claimed): for every payload and every id, parseResponseBody of
\* {success: true, data: payload, request_id: id} yields data = payload and
\* requestId = id.
C23_SuccessRoundTrip ==
  (Parsed /\ SuccessEnvelope(applied.body)) =>
    /\ Get(applied.did.value, "data") = Get(applied.body, "data")
    /\ Get(applied.did.value, "requestId") = Get(applied.body, "request_id")

\* the part of C23 that the code meets: the payload always comes back, and
\* so does every id that is truthy or null
C23_TruthyIdRoundTrip ==
  (Parsed /\ SuccessEnvelope(applied.body)) =>
    /\ HasKey(applied.did.value, "data")
    /\ Get(applied.did.value, "data") = Get(applied.body, "data")
    /\ (Truthy(Get(applied.body, "request_id")) \/ Get(applied.body, "request_id") = Null)
         => Get(applied.did.value, "requestId") = Get(applied.body, "request_id")

\* parseResponseBody was applied to the data its first application produced
ParsedAgain == applied.fn = "parseResponseBody" /\ "first" \in DOMAIN applied

\* C24 (as claimed): for every body whose parse produces no error, parsing
\* the produced data again yields the same data unchanged.
C24_Idempotent ==
  ParsedAgain =>
    /\ HasKey(applied.did.value, "data")
    /\ Get(applied.did.value, "data") = applied.body

\* the value is an envelope itself: an object with success = false, or with
\* success = true and a data key
IsEnvelope(v) ==
  /\ TypeOf(Get(v, "success")) = "boolean"
  /\ Get(v, "success") = Bool(FALSE) \/ HasKey(v, "data")

\* C24 (amended): for every body whose parse produces no error and whose
\* produced data is not an envelope itself, parsing the produced data again
\* yields the same data unchanged and no error.
C24_IdempotentOnUnwrapped ==
  (ParsedAgain /\ ~IsEnvelope(applied.body)) =>
    /\ DOMAIN applied.did.value.o = {"data", "pagination", "requestId"}
    /\ Get(applied.did.value, "data") = applied.body

\* a reply returned whole (success without a data key) that is parsed again
\* and returned whole again
C24_Witness ==
  /\ ParsedAgain
  /\ applied.first = Obj([success |-> Bool(TRUE), message |-> Str("ok")])
  /\ applied.body = applied.first
  /\ Get(applied.did.value, "data") = applied.first

\* the body is an object with success = false
ErrorEnvelope(body) == HasKey(body, "success") /\ Get(body, "success") = Bool(FALSE)

\* the value of a field that is surfaced when present and null otherwise
Surfaced(got, field) ==
  /\ Truthy(field) => got = field
  /\ field \in {Undefined, Null} => got = Null

\* C25: for every body with success = false, whatever other fields it has,
\* parseResponseBody returns a result without a data field that carries
\* only body.error and body.request_id.
C25_ErrorEnvelopeHasNoData ==
  (applied.fn = "parseResponseBody" /\ ErrorEnvelope(applied.body)) =>
    /\ applied.did.do = "return"
    /\ ~HasKey(applied.did.value, "data")
    /\ DOMAIN applied.did.value.o = {"error", "requestId"}
    /\ Get(applied.did.value, "error") = Get(applied.body, "error")
    /\ Surfaced(Get(applied.did.value, "requestId"), Get(applied.body, "request_id"))

\* an error envelope that has a data field and pagination
C25_Witness ==
  /\ Parsed
  /\ applied.body = Obj([success |-> Bool(FALSE), error |-> Str("oops"),
                         data |-> Obj([user_id |-> Str("u1")]), pagination |-> Page])
  /\ applied.did.value = Obj([error |-> Str("oops"), requestId |-> Null])

\* C26: for a body with success = true the result's data is body.data when
\* the body has a data key (even when that value is null) and the entire
\* body otherwise; pagination and request_id are surfaced when present and
\* are null otherwise; the result has no error.
C26_SuccessEnvelope ==
  (applied.fn = "parseResponseBody" /\ HasKey(applied.body, "success")
     /\ Get(applied.body, "success") = Bool(TRUE)) =>
    /\ applied.did.do = "return"
    /\ DOMAIN applied.did.value.o = {"data", "pagination", "requestId"}
    /\ Get(applied.did.value, "data") =
         (IF "data" \in DOMAIN applied.body.o THEN applied.body.o["data"] ELSE applied.body)
    /\ Surfaced(Get(applied.did.value, "pagination"), Get(applied.body, "pagination"))
    /\ Surfaced(Get(applied.did.value, "requestId"), Get(applied.body, "request_id"))

\* a data key whose value is null: the data is null, not the body
C26_Witness ==
  /\ Parsed
  /\ applied.body = Obj([success |-> Bool(TRUE), data |-> Null, pagination |-> Page])
  /\ applied.did.value = Obj([data |-> Null, pagination |-> Page, requestId |-> Null])

\* the call ended on a 2xx response whose body is an object without a
\* boolean success key
LegacyResponse(c) ==
  /\ pc[c] \in Final
  /\ resp[c].settled = "resolved"
  /\ Truthy(Get(resp[c].value, "data"))
  /\ TypeOf(Get(resp[c].value, "data")) = "object"
  /\ TypeOf(Get(Get(resp[c].value, "data"), "success")) # "boolean"

\* neither the headers nor the body of the response have a request ID
NoRequestId(response) ==
  /\ \A sp \in Spellings("X-Request-Id") : ~Truthy(Get(Get(response, "headers"), sp))
  /\ \A k \in {"request_id", "requestId"} : ~Truthy(Get(Get(response, "data"), k))

\* C27: for a 2xx response whose body is an object without a boolean success
\* key the call returns the whole body unchanged as data, the body's
\* top-level pagination or null as pagination, and requestId = null when
\* neither the headers nor the body have a request ID.
C27_LegacyPassthrough ==
  \A c \in Calls :
    LegacyResponse(c) =>
      /\ pc[c] = "Succeeded"
      /\ outcome[c].ok
      /\ outcome[c].value.data = Get(resp[c].value, "data")
      /\ Surfaced(outcome[c].value.pagination,
                  Get(Get(resp[c].value, "data"), "pagination"))
      /\ NoRequestId(resp[c].value) => outcome[c].value.requestId = Null

\* the scenario of the spec: {user_id: "u1", points: 5} without headers
C27_Witness ==
  /\ LegacyResponse("c1")
  /\ resp["c1"].value = Response(NoHeaders, Obj([user_id |-> Str("u1"), points |-> Num(5)])).value
  /\ outcome["c1"].value.data = Obj([user_id |-> Str("u1"), points |-> Num(5)])
  /\ outcome["c1"].value.requestId = Null
  /\ outcome["c1"].value.pagination = Null

\* C28: for every body that is not an object (a primitive, undefined or
\* null) parseResponseBody returns {data: body, pagination: null,
\* requestId: null} without an error, and it returns for every body.
C28_NonObjectPassthrough ==
  applied.fn = "parseResponseBody" =>
    /\ applied.did.do = "return"
    /\ (applied.body.t # "object") =>
         applied.did.value = Obj([data |-> applied.body, pagination |-> Null,
                                  requestId |-> Null])

\* the falsy primitive 0 is passed through as 0
C28_Witness ==
  /\ Parsed
  /\ applied.body = Num(0)
  /\ applied.did.value = Obj([data |-> Num(0), pagination |-> Null, requestId |-> Null])

\* ------------------------------------------------------------------------
\* The dispatched request (C29, C30)
\* ------------------------------------------------------------------------
\* the params of the call's configuration, {} when it has none
ParamsOf(c) == IF HasKey(config[c], "params") THEN config[c].o["params"].o ELSE <<>>

\* C29: the params of every dispatched request are the entries of the call's
\* params whose value is neither undefined nor null, with the same key and
\* value: 0, false and the empty string are kept, and no key is added.
C29_ParamsCleaned ==
  \A c \in Calls : \A i \in 1..Len(sent[c]) :
    LET given == ParamsOf(c)
        cleaned == Get(sent[c][i], "params")
    IN /\ cleaned.t = "object"
       /\ \A k \in DOMAIN given :
            IF given[k] \in {Undefined, Null}
            THEN k \notin DOMAIN cleaned.o
            ELSE k \in DOMAIN cleaned.o /\ cleaned.o[k] = given[k]
       /\ DOMAIN cleaned.o \subseteq DOMAIN given

\* a request dispatched with limit = 0, s = "" and live = false kept and
\* page (undefined) and q (null) dropped
C29_Witness ==
  /\ Len(sent["c1"]) >= 1
  /\ {"page", "q"} \subseteq DOMAIN ParamsOf("c1")
  /\ Get(sent["c1"][1], "params") =
       Obj([limit |-> Num(0), s |-> Str(""), live |-> Bool(FALSE), size |-> Num(50),
            cursor |-> Str("abc"), active |-> Bool(TRUE)])

\* the headers of the call's configuration, {} when it has none
HeadersOf(c) == IF HasKey(config[c], "headers") THEN config[c].o["headers"].o ELSE <<>>

\* C30: in every dispatched request the body is set if and only if the
\* call's body is not null (nor left out), and it is that body; the
\* X-Idempotency-Key header is there if and only if a (non-empty)
\* idempotency key was given, and it carries that key; the caller's other
\* headers are passed through unchanged.
C30_BodyAndIdempotencyKey ==
  \A c \in Calls : \A i \in 1..Len(sent[c]) :
    LET body == Get(config[c], "body")
        key == Get(config[c], "idempotencyKey")
        given == HeadersOf(c)
        request == sent[c][i]
        headers == Get(request, "headers")
    IN /\ HasKey(request, "data") <=> body \notin {Undefined, Null}
       /\ HasKey(request, "data") => Get(request, "data") = body
       /\ headers.t = "object"
       /\ IF Truthy(key)
          THEN Get(headers, "X-Idempotency-Key") = key
          ELSE HasKey(headers, "X-Idempotency-Key") <=> "X-Idempotency-Key" \in DOMAIN given
       /\ DOMAIN headers.o \ {"X-Idempotency-Key"} = DOMAIN given \ {"X-Idempotency-Key"}
       /\ \A h \in DOMAIN given \ {"X-Idempotency-Key"} : headers.o[h] = given[h]

\* a request with the falsy body 0, the given key in place of the caller's
\* own X-Idempotency-Key header, and the caller's other header
C30_Witness ==
  /\ Len(sent["c1"]) >= 1
  /\ Get(config["c1"], "body") = Num(0)
  /\ Get(sent["c1"][1], "data") = Num(0)
  /\ Get(sent["c1"][1], "headers") =
       Obj(("X-Idempotency-Key" :> Str("key-2")) @@ ("X-Trace" :> Str("t-1")))

\* ------------------------------------------------------------------------
\* The per-call timeout (C31)
\* ------------------------------------------------------------------------
\* the timeout in force for a dispatched request: its own when it carries
\* one, else the default of the axios instance (constructor, line 239)
EffectiveTimeout(request) ==
  IF HasKey(request, "timeout") THEN Get(request, "timeout") ELSE client.timeout

\* C31 (as claimed): when the call supplies a per-call timeout every
\* dispatch of it carries that timeout in place of the client default; when
\* it supplies none the dispatch carries no timeout and the client default
\* applies.
C31_ExplicitTimeoutOverrides ==
  \A c \in Calls : \A i \in 1..Len(sent[c]) :
    LET timeout == Get(config[c], "timeout")
    IN IF timeout # Undefined
       THEN /\ Get(sent[c][i], "timeout") = timeout
            /\ EffectiveTimeout(sent[c][i]) = timeout
       ELSE /\ ~HasKey(sent[c][i], "timeout")
            /\ EffectiveTimeout(sent[c][i]) = client.timeout

\* the part of C31 that the code meets: a timeout other than 0 is carried
\* by every dispatch, and without a timeout none is carried
C31_NonZeroTimeoutOverrides ==
  \A c \in Calls : \A i \in 1..Len(sent[c]) :
    Get(config[c], "timeout") # Num(0) =>
      /\ Get(sent[c][i], "timeout") = Get(config[c], "timeout")
      /\ HasKey(sent[c][i], "timeout") <=> HasKey(config[c], "timeout")

\* ------------------------------------------------------------------------
\* Error envelopes on a 2xx response (C33)
\* ------------------------------------------------------------------------
\* the call ended on a 2xx response whose body has success = false
EndedOnErrorEnvelope(c) ==
  /\ pc[c] \in Final
  /\ resp[c].settled = "resolved"
  /\ ErrorEnvelope(Get(resp[c].value, "data"))

\* C33 (as claimed): for every 2xx response whose body has success = false,
\* also when error is missing, null or an empty string, request throws a
\* failure and never returns a result.
C33_ErrorEnvelopeNeverSucceeds ==
  \A c \in Calls :
    EndedOnErrorEnvelope(c) =>
      /\ pc[c] = "Failed"
      /\ ~outcome[c].ok
      /\ IsRooguysError(outcome[c].error)

\* the part of C33 that the code meets: an error envelope whose error is
\* truthy makes the call fail with a ValidationError
C33_TruthyErrorFails ==
  \A c \in Calls :
    (EndedOnErrorEnvelope(c) /\ Truthy(Get(Get(resp[c].value, "data"), "error"))) =>
      FailedWith(c, "ValidationError")

\* ------------------------------------------------------------------------
\* The warning callback over a whole call (C34)
\* ------------------------------------------------------------------------
\* the callback is invoked in this step for call c
Warned(c) == warnings'[c] # warnings[c]

\* C34: the warning callback is invoked at most once per call, whatever the
\* number of retries, and only in the step that interprets a 2xx response,
\* which ends the call: never for an HTTP error response (a 429 with
\* remaining = 0 included) and never for a transport exception.
C34_WarnedAtMostOnce ==
  /\ [](\A c \in Calls :
          /\ Len(warnings[c]) <= 1
          /\ warnings[c] # <<>> => (resp[c] # Undefined /\ resp[c].settled = "resolved"))
  /\ [][\A c \in Calls :
          Warned(c) => /\ pc[c] = "Interpreting"
                       /\ resp[c].settled = "resolved"
                       /\ pc'[c] \in Final
                       /\ Len(warnings'[c]) = Len(warnings[c]) + 1]_vars

\* a call that was answered 429 twice, retried twice and then warned once
\* on the 2xx response that ended it
C34_Witness ==
  /\ pc["c1"] = "Succeeded"
  /\ n429["c1"] = 2
  /\ sleepCount["c1"] = 2
  /\ Len(warnings["c1"]) = 1

\* ------------------------------------------------------------------------
\* The attempt counter (C35)
\* ------------------------------------------------------------------------
\* the number of 429 answers of call c that were retried so far: a retry is
\* made when the sleep that a 429 started has ended
Retried(c) == IF pc[c] = "Retrying" THEN sleepCount[c] - 1 ELSE sleepCount[c]

\* C35: in every state of a call started with retryCount = 0 the counter is
\* the number of 429 answers retried so far and the number of dispatches is
\* the counter + 1 (the counter itself before the next dispatch is issued);
\* the counter never shrinks and grows by exactly 1 per retry; once the call
\* has Succeeded or Failed it dispatches and sleeps no more.
C35_AttemptCounter ==
  /\ [](\A c \in Calls :
          /\ retryCount[c] = Retried(c)
          /\ sleepCount[c] <= n429[c]
          /\ Len(sent[c]) = IF pc[c] \in {"Building", "Unused"} THEN retryCount[c]
                            ELSE retryCount[c] + 1)
  /\ [][\A c \in Calls :
          /\ retryCount'[c] \in {retryCount[c], retryCount[c] + 1}
          /\ retryCount'[c] = retryCount[c] + 1 <=> (pc[c] = "Retrying" /\ pc'[c] = "Building")
          /\ pc[c] \in Final =>
               /\ pc'[c] = pc[c] /\ sent'[c] = sent[c] /\ sleepCount'[c] = sleepCount[c]
               /\ sleeping'[c] = sleeping[c] /\ outcome'[c] = outcome[c]]_vars

\* the third dispatch of a call is in flight after two retried 429 answers
C35_Witness ==
  /\ pc["c1"] = "Dispatching"
  /\ retryCount["c1"] = 2
  /\ n429["c1"] = 2
  /\ Len(sent["c1"]) = 3

\* ------------------------------------------------------------------------
\* A call entered with an explicit retryCount (C38)
\* ------------------------------------------------------------------------
\* the larger of 0 and n
AtLeastZero(n) == IF n < 0 THEN 0 ELSE n

\* C38: a call of request entered with retryCount = r retries on 429 only
\* while the counter is below the client's maxRetries: it makes at most
\* max(0, maxRetries - r) retries, none at all when r >= maxRetries, and
\* with auto-retry on a call that fails on a 429 has made all of them.
C38_RetriesFromExplicitCount ==
  \A c \in Calls :
    LET r == invoked[c].retryCount
        left == AtLeastZero(client.maxRetries.n - r)
    IN /\ sleepCount[c] <= left
       /\ r >= client.maxRetries.n => (sleepCount[c] = 0 /\ Len(sent[c]) <= 1)
       /\ pc[c] = "Retrying" => retryCount[c] < client.maxRetries.n
       /\ (FailedWith(c, "RateLimitError") /\ Truthy(client.autoRetry)) =>
            sleepCount[c] = left

\* entered with retryCount = 2 under maxRetries = 3: one retry, then the
\* RateLimitError
C38_Witness ==
  /\ invoked["c1"].retryCount = 2
  /\ client.maxRetries = Num(3)
  /\ FailedWith("c1", "RateLimitError")
  /\ sleepCount["c1"] = 1
  /\ Len(sent["c1"]) = 2

\* ------------------------------------------------------------------------
\* Determinism (C36)
\* ------------------------------------------------------------------------
\* the sequence s begins the sequence t
Begins(s, t) == Len(s) <= Len(t) /\ SubSeq(t, 1, Len(s)) = s

\* how far a call that heard a given number of outcomes is
Stage(place) ==
  CASE place = "Interpreting" -> 0
    [] place \in Final \cup {"Retrying"} -> 1
    [] place = "Building" -> 2
    [] place = "Dispatching" -> 3

\* the call d got the transport outcomes the call c got, as far as d is,
\* and is not further than c
NotAhead(d, c) ==
  /\ Begins(heard[d].outcomes, heard[c].outcomes)
  /\ Len(heard[d].outcomes) = Len(heard[c].outcomes) => Stage(pc[d]) <= Stage(pc[c])

\* the calls c and d got the same transport outcomes and are as far
SameHistory(c, d) == heard[c] = heard[d] /\ pc[c] = pc[d]

\* C36: two calls with the same client options and request configuration
\* that get the same sequence of transport outcomes make the same
\* dispatches and sleeps, get the same warnings and end with the same result
\* or the same failure, whether they run one after the other or interleaved
\* on the client: a call that is not ahead of the other has done what the
\* other did up to there, ends only where the other ended, and two calls that
\* are as far agree on everything observable.
C36_Deterministic ==
  \A c, d \in Calls :
    /\ NotAhead(d, c) =>
         /\ Begins(sent[d], sent[c])
         /\ Begins(warnings[d], warnings[c])
         /\ sleepCount[d] <= sleepCount[c]
         /\ pc[d] \in Final => SameHistory(c, d)
    /\ SameHistory(c, d) =>
         /\ sent[c] = sent[d]
         /\ retryCount[c] = retryCount[d]
         /\ sleepCount[c] = sleepCount[d]
         /\ sleeping[c] = sleeping[d]
         /\ warnings[c] = warnings[d]
         /\ raised[c] = raised[d]
         /\ outcome[c] = outcome[d]

\* both calls heard a 429 and then a 2xx answer, slept once, warned once and
\* succeeded with the same result
C36_Witness ==
  /\ \A c \in Calls : pc[c] = "Succeeded" /\ Len(heard[c].outcomes) = 2 /\ sleepCount[c] = 1
  /\ heard["c1"] = heard["c2"]
  /\ outcome["c1"] = outcome["c2"]
  /\ Len(warnings["c2"]) = 1

\* ------------------------------------------------------------------------
\* Client-side validation (C32)
\* ------------------------------------------------------------------------
\* the number of "@" in s
AtSigns(s) == Cardinality({i \in 1..Len(s) : CharAt(s, i) = "@"})

\* s is local@domain.tld: no white space, one "@" that does not come first,
\* and after it a "." with something on both sides
WellFormedEmail(s) ==
  /\ \A i \in 1..Len(s) : CharAt(s, i) # " "
  /\ AtSigns(s) = 1
  /\ LET at == CHOOSE i \in 1..Len(s) : CharAt(s, i) = "@"
     IN /\ at > 1
        /\ \E i \in (at + 2)..(Len(s) - 1) : CharAt(s, i) = "."

\* the arguments of the call are among those the methods must refuse: a
\* value that is not an integer in 1..5, events that are not an array of 1
\* to 100 elements, user data without a userId or with an email string that
\* is not well formed
InvalidArguments(call) ==
  CASE call.method = "aha.declare" -> call.args[2] \notin {Num(n) : n \in 1..5}
    [] call.method = "events.trackBatch" ->
         \/ "a" \notin DOMAIN call.args[1]
         \/ Len(call.args[1].a) \notin 1..100
    [] call.method = "users.create" ->
         \/ Get(call.args[1], "userId") \in {Undefined, Null, Str("")}
         \/ /\ TypeOf(Get(call.args[1], "email")) = "string"
            /\ Get(call.args[1], "email") # Str("")
            /\ ~WellFormedEmail(Get(call.args[1], "email").s)
    [] OTHER -> FALSE

\* the method threw a ValidationError
ThrewValidationError(c) ==
  /\ returned[c] # Undefined
  /\ ~returned[c].ok
  /\ returned[c].error.name = "ValidationError"

\* C32: aha.declare with a value that is not an integer in 1..5,
\* events.trackBatch with a non-array, an empty array or more than 100
\* events, and users.create with a missing userId or an invalid email fail
\* with a ValidationError, and no request of that call is ever dispatched to
\* the transport.
C32_ValidationPrecedesDispatch ==
  \A c \in Calls :
    InvalidArguments(invoked[c]) =>
      /\ sent[c] = <<>>
      /\ pc[c] \in {"Calling", "Thrown"}
      /\ pc[c] = "Thrown" => ThrewValidationError(c)

\* aha.declare('user123', 0) threw the ValidationError INVALID_AHA_VALUE and
\* dispatched nothing
C32_Witness ==
  /\ invoked["c1"] = [method |-> "aha.declare", args |-> <<Str("user123"), Num(0)>>]
  /\ pc["c1"] = "Thrown"
  /\ ThrewValidationError("c1")
  /\ returned["c1"].error.code = Str("INVALID_AHA_VALUE")
  /\ sent["c1"] = <<>>

\* ------------------------------------------------------------------------
\* health.isReady (C37)
\* ------------------------------------------------------------------------
\* C37: health.isReady never throws: once its request has ended it returns,
\* true exactly when the request ended in Succeeded and false for every
\* failure.
C37_IsReadyNeverThrows ==
  \A c \in Calls :
    invoked[c].method = "health.isReady" =>
      /\ pc[c] # "Thrown"
      /\ returned[c] # Undefined =>
           /\ pc[c] \in Final
           /\ returned[c].ok
           /\ returned[c].value = Bool(pc[c] = "Succeeded")
      /\ pc[c] \in Final /\ returned[c] = Undefined =>
           MethodResult(invoked[c], outcome[c]) \in
             {[ok |-> TRUE, value |-> Bool(b)] : b \in BOOLEAN}

\* isReady returned false after the retries of a rate-limited health
\* request were exhausted
C37_Witness ==
  /\ invoked["c1"].method = "health.isReady"
  /\ returned["c1"] = [ok |-> TRUE, value |-> Bool(FALSE)]
  /\ pc["c1"] = "Failed"
  /\ sleepCount["c1"] = 1
  /\ outcome["c1"].error.name = "RateLimitError"
====
